---- MODULE Spec2Model ----
(***************************************************************************)
(* Shade payment protocol (contracts/shade): the invoice engine of         *)
(* components/invoice.rs behind the contract facade of shade.rs, together  *)
(* with the token ledger and the merchant escrow accounts it drives.       *)
(*                                                                         *)
(* Every entry point is one atomic action: the ledger is single-threaded   *)
(* and runs one transaction at a time.  A panic rolls the whole invocation *)
(* back, so a failing call changes nothing but `last`, the result the      *)
(* ledger hands to the submitter: the operation, its arguments, the error  *)
(* it raised and the amount and fee of the event it published.  The next   *)
(* transaction is applied once that result has been collected (Settle).    *)
(***************************************************************************)
EXTENDS Integers, FiniteSets, Sequences, TLC

(* ------------------------------ bounds --------------------------------- *)

\* largest invoice amount / payment amount the environment submits
MaxAmount == 3
\* number of invoices the environment creates
MaxInvoices == 1
\* number of one-second ledger steps taken on either side of the refund window
MaxTicks == 1
\* token balance of the well-funded customer c1 at deployment
RichBalance == 4

(* --------------------------- program constants ------------------------- *)

MAX_REFUND_DURATION == 604800
BASIS_POINTS == 10000

(* ------------------------------ universe ------------------------------- *)

NoAddr == "none"
NoTime == -1
NoInfo == [admin |-> NoAddr, timestamp |-> NoTime]
ShadeAddr == "shade"
AdminAddr == "admin"
ManagerAddr == "mgr"
Customers == {"c1", "c2"}
Merchants == {"m1", "m2"}
Tokens == {"T1"}
Descriptions == {"x", "y"}
FeeRates == {0, 5000, 10000}
EscrowOf == [m \in Merchants |-> IF m = "m1" THEN "e1" ELSE "e2"]
Escrows == {EscrowOf[m] : m \in Merchants}
Holders == Customers \cup Escrows \cup {ShadeAddr}
\* addresses that call the merchant-side entry points: the merchants and an outsider
MerchantCallers == Merchants \cup {"c1"}
\* addresses that submit signed invoices: the admin, a manager and an outsider
SignedCallers == {AdminAddr, ManagerAddr, "c1"}
Roles == {"Admin", "Manager", "Operator"}
NoKey == "nokey"
NoHash == "nohash"
InstalledCode == "h0"
Hashes == {"h1"}
Keys == {"k1", "k2"}
Nonces == {"n1"}

VARIABLES
    admin,            \* DataKey::Admin, NoAddr before initialize
    roles,            \* DataKey::Role(user, role): the flags that are set
    merchantKey,      \* DataKey::MerchantKey(address), NoKey when unset
    usedNonces,       \* DataKey::UsedNonce(merchant, nonce): the nonces consumed
    paused,           \* DataKey::Paused
    acceptedTokens,   \* DataKey::AcceptedTokens
    tokenFee,         \* DataKey::TokenFee(token), -1 when unset
    merchantCount,    \* DataKey::MerchantCount
    merchantId,       \* DataKey::MerchantId(address), 0 when unset
    merchantAccount,  \* DataKey::MerchantAccount(id), NoAddr when unset
    restricted,       \* the restricted flag of each escrow account contract
    invoiceCount,     \* DataKey::InvoiceCount
    invoices,         \* DataKey::Invoice(id), id in 1..invoiceCount
    balance,          \* token contract: balance[token][holder]
    now,              \* env.ledger().timestamp()
    last,             \* the last invocation: operation, arguments, outcome
    planCount,        \* DataKey::PlanCount
    plans,            \* DataKey::SubscriptionPlan(id), id in 1..planCount
    subscriptionCount, \* DataKey::SubscriptionCount
    subscriptions,    \* DataKey::Subscription(id), id in 1..subscriptionCount
    allowance,        \* token contract: allowance[token][owner], spender the protocol
    feeInBasisPoints, \* DataKey::FeeInBasisPoints(token), -1 when unset
    pendingAdmin,     \* the proposed next admin, NoAddr when there is none
    contractInfo,     \* DataKey::ContractInfo, NoInfo before initialize
    accountWasmHash,  \* DataKey::AccountWasmHash, NoHash when unset
    contractCode,     \* the wasm hash of the installed contract code
    merchantActive,   \* Merchant(id).active, FALSE for an id not yet assigned
    merchantVerified, \* Merchant(id).verified
    feesPaid          \* per invoice, the fees of the InvoicePaid events emitted so far

regVars == <<admin, roles, merchantKey, paused, acceptedTokens, tokenFee, merchantCount,
             merchantId, merchantAccount, restricted>>
subVars == <<planCount, plans, subscriptionCount, subscriptions, allowance,
             feeInBasisPoints>>
flagVars == <<accountWasmHash, contractCode, merchantActive, merchantVerified>>
coreVars == <<pendingAdmin, contractInfo, flagVars>>
vars == <<admin, roles, merchantKey, usedNonces, paused, acceptedTokens, tokenFee,
          merchantCount, merchantId, merchantAccount, restricted, invoiceCount,
          invoices, balance, now, last, subVars, coreVars, feesPaid>>

(* ------------------------------- errors -------------------------------- *)

OK == "OK"
\* host errors that are not contract errors
AuthError == "HostAuth"
TokenError == "TokenBalance"
AccountRestricted == "AccountRestricted"
CryptoError == "HostCrypto"

(* --------------------------- external contracts ------------------------ *)

\* token.transfer(from, to, amount) of the standard token contract:
\* fails when `from` holds less than `amount`
CanTransfer(bal, tok, from, amount) == amount >= 0 /\ bal[tok][from] >= amount

Transfer(bal, tok, from, to, amount) ==
    IF from = to THEN bal
    ELSE [bal EXCEPT ![tok][from] = @ - amount, ![tok][to] = @ + amount]

(* ------------------------------ lookups -------------------------------- *)

is_accepted_token(tok) == tok \in acceptedTokens

is_merchant(addr) == addr \in DOMAIN merchantId /\ merchantId[addr] # 0

\* access_control::has_role: the Admin role is the stored admin's
has_role_in(rs, user, role) ==
    IF role = "Admin" THEN admin # NoAddr /\ user = admin ELSE <<user, role>> \in rs

has_role(user, role) == has_role_in(roles, user, role)

HasInvoice(id) == id \in DOMAIN invoices

get_merchant_account(mid) ==
    IF mid \in DOMAIN merchantAccount THEN merchantAccount[mid] ELSE NoAddr

\* variant: the fee is rounded up instead of down
get_fee_for_amount_RoundUp(tok, amount) ==
    LET fee_bps == IF tokenFee[tok] = -1 THEN 0 ELSE tokenFee[tok]
    IN  IF fee_bps = 0 THEN 0
        ELSE (amount * fee_bps + BASIS_POINTS - 1) \div BASIS_POINTS

get_fee_for_amount_Mut(tok, amount) ==
    LET fee_bps == IF tokenFee[tok] = -1 THEN 0 ELSE tokenFee[tok]
    IN  IF fee_bps = 0 THEN 0 ELSE (amount \div BASIS_POINTS) * fee_bps

get_fee_for_amount(tok, amount) ==
    LET fee_bps == IF tokenFee[tok] = -1 THEN 0 ELSE tokenFee[tok]
    IN  IF fee_bps = 0 THEN 0 ELSE (amount * fee_bps) \div BASIS_POINTS

\* the id a create gives its record: the counter plus one
next_id_Mut(count) == count

next_id(count) == count + 1

(* --------------------------- outcome records --------------------------- *)

\* the outcome of an invocation that panics before it has written anything
Fail(e) ==
    [err |-> e, inv |-> invoices, bal |-> balance, count |-> invoiceCount,
     nonces |-> usedNonces, evAmount |-> 0, evFee |-> 0, late |-> FALSE]

\* a successful invocation: what it stored, and the amount and fee of its event
Done(inv, bal, count, evAmount, evFee) ==
    [err |-> OK, inv |-> inv, bal |-> bal, count |-> count,
     nonces |-> usedNonces, evAmount |-> evAmount, evFee |-> evFee, late |-> FALSE]

\* a panic after writes were staged: the handler stops with error e, having
\* stored the invoice map `inv` and made the transfers that give `bal`
Trap(e, inv, bal) == [Fail(e) EXCEPT !.inv = inv, !.bal = bal]

\* the host's end of an invocation: one that returned normally keeps what it
\* staged, one that panicked loses every storage write and every transfer
Rollback(out) ==
    IF out.err = OK THEN out
    ELSE [out EXCEPT !.inv = invoices, !.bal = balance, !.count = invoiceCount,
                     !.nonces = usedNonces]

\* the outcome of a precondition check that fails after the invocation has
\* already made a transfer or a storage write: marked as such
LateCheck(out) == [out EXCEPT !.late = TRUE]

(* --------------------------- merchant escrow --------------------------- *)

\* MerchantAccountRefund::refund(token, amount, to) of the escrow account
\* contract, invoked by the protocol contract: refused while the account is
\* restricted, otherwise a token transfer from the escrow to `to`
escrow_refund_error(bal, account, tok, amount) ==
    IF restricted[account] THEN AccountRestricted
    ELSE IF ~CanTransfer(bal, tok, account, amount) THEN TokenError
    ELSE OK

\* variant: a refund that is paid out of the protocol contract's own balance
escrow_refund_Mut(bal, account, tok, amount, to) == Transfer(bal, tok, ShadeAddr, to, amount)

escrow_refund(bal, account, tok, amount, to) == Transfer(bal, tok, account, to, amount)

\* variant: the escrow is called through try_refund and its error is dropped,
\* so the handler goes on and returns normally with the refund recorded
refund_client_refund_Swallowed(e, stored, bal) == Done(stored, bal, invoiceCount, 0, 0)

\* refund_client.refund(token, amount, payer) when the escrow fails with e: the
\* client call is not a try_ call, so the failure panics the handler after it
\* has stored the updated invoice
refund_client_refund(e, stored, bal) == Trap(e, stored, bal)

(* ------------------------- signature_util.rs -------------------------- *)

\* variant: the message signed leaves out the amount and the description
build_message_Mut(merchant, description, amount, tok, nonce) ==
    <<ShadeAddr, merchant, nonce, 1, tok, "x">>

build_message(merchant, description, amount, tok, nonce) ==
    <<ShadeAddr, merchant, nonce, amount, tok, description>>

\* an ed25519 signature: the key pair that made it and the bytes it covers
Sign(key, message) == [key |-> key, msg |-> message]

\* env.crypto().ed25519_verify(key, message, signature)
ed25519_verify(key, message, signature) ==
    signature.key = key /\ signature.msg = message

\* verify_invoice_signature, as the error it raises
verify_invoice_signature(merchant, description, amount, tok, nonce, signature) ==
    IF merchantKey[merchant] = NoKey THEN "MerchantKeyNotFound"
    ELSE IF ~ed25519_verify(merchantKey[merchant],
                            build_message(merchant, description, amount, tok, nonce),
                            signature)
    THEN CryptoError
    ELSE OK

\* variants: a nonce check that never rejects; one keyed by the nonce bytes alone
invalidate_nonce_error_NoCheck(merchant, nonce) == OK

invalidate_nonce_error_Global(merchant, nonce) ==
    IF \E m \in Merchants : <<m, nonce>> \in usedNonces
    THEN "NonceAlreadyUsed" ELSE OK

\* invalidate_nonce, as the error it raises
invalidate_nonce_error(merchant, nonce) ==
    IF <<merchant, nonce>> \in usedNonces THEN "NonceAlreadyUsed" ELSE OK

(* ------------------- invoice.rs: checks and updates -------------------- *)

NewInvoice(id, description, amount, tok, mid, expires_at) ==
    [id |-> id, description |-> description, amount |-> amount, token |-> tok,
     status |-> "Pending", merchant_id |-> mid, payer |-> NoAddr,
     date_created |-> now, date_paid |-> NoTime, amount_paid |-> 0,
     amount_refunded |-> 0, expires_at |-> expires_at]

OwnsInvoice_Mut(merchant_address, invoice) == is_merchant(merchant_address)

\* the caller is a registered merchant and the invoice carries its id
OwnsInvoice(merchant_address, invoice) ==
    /\ is_merchant(merchant_address)
    /\ invoice.merchant_id = merchantId[merchant_address]

\* refund_invoice: the refund window has closed
RefundWindowClosed(invoice) ==
    /\ invoice.date_paid # NoTime
    /\ now - invoice.date_paid > MAX_REFUND_DURATION

RefundPeriodExpired_Mut(invoice) ==
    /\ invoice.date_paid # NoTime
    /\ now - invoice.date_paid >= MAX_REFUND_DURATION

\* refund_invoice_partial: the refund window has closed
RefundPeriodExpired(invoice) ==
    /\ invoice.date_paid # NoTime
    /\ now - invoice.date_paid > MAX_REFUND_DURATION

Refundable_Mut(invoice) ==
    invoice.status \in {"Paid", "PartiallyRefunded", "PartiallyPaid"}

Refundable(invoice) == invoice.status \in {"Paid", "PartiallyRefunded"}

OverRefunds(invoice, amount) == invoice.amount_refunded + amount > invoice.amount

RecordRefund_Mut(invoice, amount) ==
    [invoice EXCEPT !.amount_refunded = invoice.amount_refunded + amount,
                    !.status = "Refunded"]

RecordRefund(invoice, amount) ==
    LET total_refund == invoice.amount_refunded + amount
    IN  [invoice EXCEPT !.amount_refunded = total_refund,
                        !.status = IF total_refund = invoice.amount
                                   THEN "Refunded" ELSE "PartiallyRefunded"]

InvoiceExpired_Mut(invoice) ==
    /\ invoice.expires_at # NoTime
    /\ now > invoice.expires_at

InvoiceExpired(invoice) ==
    /\ invoice.expires_at # NoTime
    /\ now >= invoice.expires_at

Payable_Mut(invoice) == invoice.status \in {"Pending", "PartiallyPaid", "Cancelled"}

Payable(invoice) == invoice.status \in {"Pending", "PartiallyPaid"}

Overpays_Mut(invoice, amount) == invoice.amount_paid + amount > invoice.amount + 1

Overpays(invoice, amount) == invoice.amount_paid + amount > invoice.amount

PayerMismatch(invoice, payer) == invoice.payer # NoAddr /\ invoice.payer # payer

\* variant: every payment, partial ones too, stamps date_paid
RecordPayment_Mut(invoice, payer, amount) ==
    LET paid == invoice.amount_paid + amount
    IN  [invoice EXCEPT !.amount_paid = paid,
                        !.payer = IF invoice.payer = NoAddr THEN payer ELSE @,
                        !.status = IF paid = invoice.amount THEN "Paid" ELSE "PartiallyPaid",
                        !.date_paid = now]

RecordPayment(invoice, payer, amount) ==
    LET paid == invoice.amount_paid + amount
    IN  [invoice EXCEPT !.amount_paid = paid,
                        !.payer = IF invoice.payer = NoAddr THEN payer ELSE @,
                        !.status = IF paid = invoice.amount THEN "Paid" ELSE "PartiallyPaid",
                        !.date_paid = IF paid = invoice.amount THEN now ELSE @]

\* amend_invoice: Some(amount) with amount <= 0
AmendAmountInvalid_Mut(new_amount) == new_amount # NoTime /\ new_amount < 0

AmendAmountInvalid(new_amount) == new_amount # NoTime /\ new_amount <= 0

(* ----------------------- invoice.rs: entry points ---------------------- *)

create_invoice(merchant_address, auth, description, amount, tok, expires_at) ==
    IF ~auth THEN Fail(AuthError)
    ELSE IF amount <= 0 THEN Fail("InvalidAmount")
    ELSE IF ~is_merchant(merchant_address) THEN Fail("NotAuthorized")
    ELSE LET new_invoice_id == next_id(invoiceCount)
             invoice == NewInvoice(new_invoice_id, description, amount, tok,
                                   merchantId[merchant_address], expires_at)
         IN  Done([i \in 1..new_invoice_id |->
                      IF i = new_invoice_id THEN invoice ELSE invoices[i]],
                  balance, new_invoice_id, amount, 0)

\* variant: the merchant is looked up before the amount is validated
create_invoice_signed_Mut(caller, auth, merchant, description, amount, tok, nonce, signature) ==
    IF ~has_role(caller, "Manager") /\ ~has_role(caller, "Admin")
    THEN Fail("NotAuthorized")
    ELSE IF ~auth THEN Fail(AuthError)
    ELSE IF ~is_merchant(merchant) THEN Fail("MerchantNotFound")
    ELSE IF amount <= 0 THEN Fail("InvalidAmount")
    ELSE LET e == verify_invoice_signature(merchant, description, amount, tok, nonce,
                                           signature) IN
    IF e # OK THEN Fail(e)
    ELSE IF invalidate_nonce_error(merchant, nonce) # OK
    THEN Fail(invalidate_nonce_error(merchant, nonce))
    ELSE LET new_invoice_id == next_id(invoiceCount)
             invoice == NewInvoice(new_invoice_id, description, amount, tok,
                                   merchantId[merchant], NoTime)
         IN  [Done([i \in 1..new_invoice_id |->
                       IF i = new_invoice_id THEN invoice ELSE invoices[i]],
                   balance, new_invoice_id, amount, 0)
                 EXCEPT !.nonces = usedNonces \cup {<<merchant, nonce>>}]

create_invoice_signed(caller, auth, merchant, description, amount, tok, nonce, signature) ==
    IF ~has_role(caller, "Manager") /\ ~has_role(caller, "Admin")
    THEN Fail("NotAuthorized")
    ELSE IF ~auth THEN Fail(AuthError)
    ELSE IF amount <= 0 THEN Fail("InvalidAmount")
    ELSE IF ~is_merchant(merchant) THEN Fail("MerchantNotFound")
    ELSE LET e == verify_invoice_signature(merchant, description, amount, tok, nonce,
                                           signature) IN
    IF e # OK THEN Fail(e)
    ELSE IF invalidate_nonce_error(merchant, nonce) # OK
    THEN Fail(invalidate_nonce_error(merchant, nonce))
    ELSE LET new_invoice_id == next_id(invoiceCount)
             invoice == NewInvoice(new_invoice_id, description, amount, tok,
                                   merchantId[merchant], NoTime)
         IN  [Done([i \in 1..new_invoice_id |->
                       IF i = new_invoice_id THEN invoice ELSE invoices[i]],
                   balance, new_invoice_id, amount, 0)
                 EXCEPT !.nonces = usedNonces \cup {<<merchant, nonce>>}]

refund_invoice_partial(invoice_id, amount) ==
    IF ~HasInvoice(invoice_id) THEN Fail("InvoiceNotFound")
    ELSE LET invoice == invoices[invoice_id] IN
    IF ~Refundable(invoice) THEN Fail("InvalidInvoiceStatus")
    ELSE IF RefundPeriodExpired(invoice) THEN Fail("RefundPeriodExpired")
    ELSE IF amount <= 0 THEN Fail("InvalidAmount")
    ELSE IF OverRefunds(invoice, amount) THEN Fail("InvalidAmount")
    ELSE LET stored == [invoices EXCEPT ![invoice_id] = RecordRefund(invoice, amount)] IN
    IF invoice.payer = NoAddr THEN LateCheck(Trap("InvalidInvoiceStatus", stored, balance))
    ELSE LET merchant_account_addr == get_merchant_account(invoice.merchant_id) IN
    IF merchant_account_addr = NoAddr
    THEN LateCheck(Trap("MerchantAccountNotSet", stored, balance))
    ELSE LET e == escrow_refund_error(balance, merchant_account_addr, invoice.token, amount) IN
    IF e # OK THEN refund_client_refund(e, stored, balance)
    ELSE Done(stored,
              escrow_refund(balance, merchant_account_addr, invoice.token, amount,
                            invoice.payer),
              invoiceCount,
              IF invoice.amount_refunded + amount = invoice.amount
              THEN invoice.amount ELSE amount,
              0)

refund_invoice(merchant_address, auth, invoice_id) ==
    IF ~auth THEN Fail(AuthError)
    ELSE IF ~HasInvoice(invoice_id) THEN Fail("InvoiceNotFound")
    ELSE LET invoice == invoices[invoice_id] IN
    IF ~OwnsInvoice(merchant_address, invoice) THEN Fail("NotAuthorized")
    ELSE IF RefundWindowClosed(invoice) THEN Fail("RefundPeriodExpired")
    ELSE LET amount_to_refund == invoice.amount - invoice.amount_refunded IN
    IF amount_to_refund <= 0 THEN Fail("InvalidAmount")
    ELSE refund_invoice_partial(invoice_id, amount_to_refund)

pay_invoice_partial(payer, auth, invoice_id, amount) ==
    IF ~auth THEN Fail(AuthError)
    ELSE IF amount <= 0 THEN Fail("InvalidAmount")
    ELSE IF ~HasInvoice(invoice_id) THEN Fail("InvoiceNotFound")
    ELSE LET invoice == invoices[invoice_id] IN
    IF InvoiceExpired(invoice) THEN Fail("InvoiceExpired")
    ELSE IF ~Payable(invoice) THEN Fail("InvalidInvoiceStatus")
    ELSE IF Overpays(invoice, amount) THEN Fail("InvalidAmount")
    ELSE IF ~is_accepted_token(invoice.token) THEN Fail("TokenNotAccepted")
    ELSE LET fee_amount == get_fee_for_amount(invoice.token, amount)
             merchant_amount == amount - fee_amount
             merchant_account_id == get_merchant_account(invoice.merchant_id)
         IN
    IF merchant_account_id = NoAddr THEN Fail("MerchantAccountNotSet")
    ELSE IF ~CanTransfer(balance, invoice.token, payer, merchant_amount) THEN Fail(TokenError)
    ELSE LET bal1 == Transfer(balance, invoice.token, payer, merchant_account_id,
                              merchant_amount) IN
    IF fee_amount > 0 /\ ~CanTransfer(bal1, invoice.token, payer, fee_amount)
    THEN Trap(TokenError, invoices, bal1)
    ELSE LET bal2 == IF fee_amount > 0
                     THEN Transfer(bal1, invoice.token, payer, ShadeAddr, fee_amount)
                     ELSE bal1 IN
    IF PayerMismatch(invoice, payer) THEN LateCheck(Trap("NotAuthorized", invoices, bal2))
    ELSE Done([invoices EXCEPT ![invoice_id] = RecordPayment(invoice, payer, amount)],
              bal2, invoiceCount, amount, fee_amount)

\* variant: pays the whole invoice amount instead of the remainder
pay_invoice_Mut(payer, auth, invoice_id) ==
    IF ~HasInvoice(invoice_id) THEN Fail("InvoiceNotFound")
    ELSE LET invoice == invoices[invoice_id] IN
    IF ~Payable(invoice) THEN Fail("InvalidInvoiceStatus")
    ELSE pay_invoice_partial(payer, auth, invoice_id, invoice.amount)

pay_invoice(payer, auth, invoice_id) ==
    IF ~HasInvoice(invoice_id) THEN Fail("InvoiceNotFound")
    ELSE LET invoice == invoices[invoice_id] IN
    IF ~Payable(invoice) THEN Fail("InvalidInvoiceStatus")
    ELSE LET remaining_amount == invoice.amount - invoice.amount_paid IN
    IF remaining_amount <= 0 THEN Fail("InvalidInvoiceStatus")
    ELSE pay_invoice_partial(payer, auth, invoice_id, remaining_amount)

void_invoice(merchant_address, auth, invoice_id) ==
    IF ~auth THEN Fail(AuthError)
    ELSE IF ~HasInvoice(invoice_id) THEN Fail("InvoiceNotFound")
    ELSE LET invoice == invoices[invoice_id] IN
    IF ~OwnsInvoice(merchant_address, invoice) THEN Fail("NotAuthorized")
    ELSE IF invoice.status # "Pending" THEN Fail("InvalidInvoiceStatus")
    ELSE Done([invoices EXCEPT ![invoice_id].status = "Cancelled"], balance,
              invoiceCount, 0, 0)

\* new_amount = NoTime stands for None, as does new_description = NoAddr
amend_invoice(merchant_address, auth, invoice_id, new_amount, new_description) ==
    IF ~auth THEN Fail(AuthError)
    ELSE IF ~HasInvoice(invoice_id) THEN Fail("InvoiceNotFound")
    ELSE LET invoice == invoices[invoice_id] IN
    IF ~OwnsInvoice(merchant_address, invoice) THEN Fail("NotAuthorized")
    ELSE IF invoice.status # "Pending" THEN Fail("InvalidInvoiceStatus")
    ELSE IF AmendAmountInvalid(new_amount) THEN Fail("InvalidAmount")
    ELSE Done([invoices EXCEPT
                 ![invoice_id].amount = IF new_amount # NoTime THEN new_amount ELSE @,
                 ![invoice_id].description =
                     IF new_description # NoAddr THEN new_description ELSE @],
              balance, invoiceCount,
              IF new_amount # NoTime THEN new_amount ELSE invoice.amount, 0)

(* --------------------------- transaction results ----------------------- *)

\* the further arguments of a call, kept for the calls that have some
NoArgs == <<>>

Idle == [op |-> "idle", caller |-> NoAddr, auth |-> FALSE, id |-> 0, amount |-> 0,
         args |-> NoArgs, err |-> OK, evAmount |-> 0, evFee |-> 0]

CallWith(op, caller, auth, id, amount, args, err, evAmount, evFee) ==
    [op |-> op, caller |-> caller, auth |-> auth, id |-> id, amount |-> amount,
     args |-> args, err |-> err, evAmount |-> evAmount, evFee |-> evFee]

Call(op, caller, auth, id, amount, err, evAmount, evFee) ==
    CallWith(op, caller, auth, id, amount, NoArgs, err, evAmount, evFee)

\* the ledger applies a transaction once the previous result is collected
Ready == last.op = "idle"

\* the submitter collects the result of the transaction the ledger just applied
Settle ==
    /\ ~Ready
    /\ last' = Idle
    /\ UNCHANGED <<admin, roles, merchantKey, usedNonces, paused,
                   acceptedTokens, tokenFee, merchantCount, merchantId,
                   merchantAccount, restricted, invoiceCount, invoices, balance, now, subVars, coreVars, feesPaid>>

\* the environment stops creating invoices at MaxInvoices
CanCreate == invoiceCount < MaxInvoices

(* ------------------ registry entry points (admin, merchant) ------------ *)

\* the caller is the stored admin
IsAdmin(caller) == admin # NoAddr /\ caller = admin

\* initialize: DataKey::Admin is already stored
is_initialized_Mut == FALSE

is_initialized == admin # NoAddr

Initialize(a) ==
    /\ last.op = "idle"
    /\ LET e == IF is_initialized THEN "AlreadyInitialized" ELSE OK
       IN  /\ admin' = IF e = OK THEN a ELSE admin
           /\ contractInfo' = IF e = OK THEN [admin |-> a, timestamp |-> now]
                              ELSE contractInfo
           /\ last' = Call("initialize", a, TRUE, 0, 0, e, 0, 0)
    /\ UNCHANGED <<roles, merchantKey, usedNonces, paused, acceptedTokens, tokenFee,
                   merchantCount, merchantId, merchantAccount, restricted, invoiceCount,
                   invoices, balance, now, subVars, pendingAdmin, flagVars, feesPaid>>

AddAcceptedToken(caller, tok) ==
    /\ last.op = "idle"
    /\ LET e == IF paused THEN "ContractPaused"
                ELSE IF ~IsAdmin(caller) THEN "NotAuthorized" ELSE OK
       IN  /\ acceptedTokens' = IF e = OK THEN acceptedTokens \cup {tok} ELSE acceptedTokens
           /\ last' = Call("add_accepted_token", caller, TRUE, 0, 0, e, 0, 0)
    /\ UNCHANGED <<admin, roles, merchantKey, usedNonces, paused,
                   tokenFee, merchantCount, merchantId,
                   merchantAccount, restricted, invoiceCount, invoices, balance, now, subVars, coreVars, feesPaid>>

\* the batch form: every token of the list is added
AddAcceptedTokens(caller, toks) ==
    /\ last.op = "idle"
    /\ LET e == IF paused THEN "ContractPaused"
                ELSE IF ~IsAdmin(caller) THEN "NotAuthorized" ELSE OK
       IN  /\ acceptedTokens' = IF e = OK THEN acceptedTokens \cup toks ELSE acceptedTokens
           /\ last' = Call("add_accepted_tokens", caller, TRUE, 0, 0, e, 0, 0)
    /\ UNCHANGED <<admin, roles, merchantKey, usedNonces, paused,
                   tokenFee, merchantCount, merchantId,
                   merchantAccount, restricted, invoiceCount, invoices, balance, now, subVars, coreVars, feesPaid>>

RemoveAcceptedToken(caller, tok) ==
    /\ last.op = "idle"
    /\ LET e == IF paused THEN "ContractPaused"
                ELSE IF ~IsAdmin(caller) THEN "NotAuthorized" ELSE OK
       IN  /\ acceptedTokens' = IF e = OK THEN acceptedTokens \ {tok} ELSE acceptedTokens
           /\ last' = Call("remove_accepted_token", caller, TRUE, 0, 0, e, 0, 0)
    /\ UNCHANGED <<admin, roles, merchantKey, usedNonces, paused,
                   tokenFee, merchantCount, merchantId,
                   merchantAccount, restricted, invoiceCount, invoices, balance, now, subVars, coreVars, feesPaid>>

SetFee(caller, tok, fee) ==
    /\ last.op = "idle"
    /\ LET e == IF paused THEN "ContractPaused"
                ELSE IF ~IsAdmin(caller) THEN "NotAuthorized" ELSE OK
       IN  /\ tokenFee' = IF e = OK THEN [tokenFee EXCEPT ![tok] = fee] ELSE tokenFee
           /\ last' = Call("set_fee", caller, TRUE, 0, fee, e, 0, 0)
    /\ UNCHANGED <<admin, roles, merchantKey, usedNonces, paused,
                   acceptedTokens, merchantCount, merchantId,
                   merchantAccount, restricted, invoiceCount, invoices, balance, now, subVars, coreVars, feesPaid>>

RegisterMerchant(m) ==
    /\ last.op = "idle"
    /\ LET e == IF paused THEN "ContractPaused"
                ELSE IF is_merchant(m) THEN "MerchantAlreadyRegistered" ELSE OK
       IN  /\ merchantCount' = IF e = OK THEN next_id(merchantCount) ELSE merchantCount
           /\ merchantId' = IF e = OK THEN [merchantId EXCEPT ![m] = next_id(merchantCount)]
                            ELSE merchantId
           /\ merchantActive' = IF e = OK
                                THEN [merchantActive EXCEPT ![next_id(merchantCount)] = TRUE]
                                ELSE merchantActive
           /\ merchantVerified' = IF e = OK
                                  THEN [merchantVerified EXCEPT ![next_id(merchantCount)] = FALSE]
                                  ELSE merchantVerified
           /\ last' = Call("register_merchant", m, TRUE, 0, 0, e, 0, 0)
    /\ UNCHANGED <<admin, roles, merchantKey, usedNonces, paused,
                   acceptedTokens, tokenFee, merchantAccount,
                   restricted, invoiceCount, invoices, balance, now, subVars,
                   pendingAdmin, contractInfo, accountWasmHash, contractCode, feesPaid>>

\* the state every call below leaves as it is
OutsideFlags == <<regVars, usedNonces, invoiceCount, invoices, balance, now, subVars, pendingAdmin, contractInfo, feesPaid>>

\* merchant::set_merchant_status: the admin sets Merchant(id).active; the
\* entry point has no pause check
SetMerchantStatus(caller, merchant_id, status) ==
    /\ last.op = "idle"
    /\ LET e == IF ~IsAdmin(caller) THEN "NotAuthorized"
                ELSE IF merchant_id \notin 1..merchantCount THEN "MerchantNotFound" ELSE OK
       IN  /\ merchantActive' = IF e = OK THEN [merchantActive EXCEPT ![merchant_id] = status]
                                ELSE merchantActive
           /\ last' = Call("set_merchant_status", caller, TRUE, merchant_id, 0, e, 0, 0)
    /\ UNCHANGED <<OutsideFlags, accountWasmHash, contractCode, merchantVerified>>

\* merchant::verify_merchant: the admin sets Merchant(id).verified; the entry
\* point has no pause check
VerifyMerchant(caller, merchant_id, status) ==
    /\ last.op = "idle"
    /\ LET e == IF ~IsAdmin(caller) THEN "NotAuthorized"
                ELSE IF merchant_id \notin 1..merchantCount THEN "MerchantNotFound" ELSE OK
       IN  /\ merchantVerified' = IF e = OK
                                  THEN [merchantVerified EXCEPT ![merchant_id] = status]
                                  ELSE merchantVerified
           /\ last' = Call("verify_merchant", caller, TRUE, merchant_id, 0, e, 0, 0)
    /\ UNCHANGED <<OutsideFlags, accountWasmHash, contractCode, merchantActive>>

\* admin::set_account_wasm_hash: the admin stores the code hash merchant
\* accounts are deployed from; the entry point has no pause check
SetAccountWasmHash(caller, wasm_hash) ==
    /\ last.op = "idle"
    /\ LET e == IF ~IsAdmin(caller) THEN "NotAuthorized" ELSE OK
       IN  /\ accountWasmHash' = IF e = OK THEN wasm_hash ELSE accountWasmHash
           /\ last' = Call("set_account_wasm_hash", caller, TRUE, 0, 0, e, 0, 0)
    /\ UNCHANGED <<OutsideFlags, contractCode, merchantActive, merchantVerified>>

\* upgrade::upgrade: with the stored admin's authorization the contract code
\* is replaced; the entry point has no pause check
Upgrade(auth, new_wasm_hash) ==
    /\ last.op = "idle"
    /\ LET e == IF admin = NoAddr THEN "NotInitialized"
                ELSE IF ~auth THEN AuthError ELSE OK
       IN  /\ contractCode' = IF e = OK THEN new_wasm_hash ELSE contractCode
           /\ last' = Call("upgrade", admin, auth, 0, 0, e, 0, 0)
    /\ UNCHANGED <<OutsideFlags, accountWasmHash, merchantActive, merchantVerified>>

SetMerchantAccount(m, account) ==
    /\ last.op = "idle"
    /\ LET e == IF ~is_merchant(m) THEN "MerchantNotFound" ELSE OK
       IN  /\ merchantAccount' = IF e = OK
                                 THEN [merchantAccount EXCEPT ![merchantId[m]] = account]
                                 ELSE merchantAccount
           /\ last' = Call("set_merchant_account", m, TRUE, 0, 0, e, 0, 0)
    /\ UNCHANGED <<admin, roles, merchantKey, usedNonces, paused,
                   acceptedTokens, tokenFee, merchantCount,
                   merchantId, restricted, invoiceCount, invoices, balance, now, subVars, coreVars, feesPaid>>

\* access_control: the stored flag of (user, role)
grant_role(rs, user, role) == rs \cup {<<user, role>>}

revoke_role_Mut(rs, user, role) == rs

revoke_role(rs, user, role) == rs \ {<<user, role>>}

\* access_control::grant_role: the authenticated stored admin sets the flag
GrantRole(caller, user, role) ==
    /\ last.op = "idle"
    /\ LET e == IF ~IsAdmin(caller) THEN "NotAuthorized" ELSE OK
       IN  /\ roles' = IF e = OK THEN grant_role(roles, user, role) ELSE roles
           /\ last' = CallWith("grant_role", caller, TRUE, 0, 0, <<user, role>>, e, 0, 0)
    /\ UNCHANGED <<admin, merchantKey, usedNonces, paused, acceptedTokens, tokenFee,
                   merchantCount, merchantId, merchantAccount, restricted,
                   invoiceCount, invoices, balance, now, subVars, coreVars, feesPaid>>

\* merchant::set_merchant_key: the authenticated merchant stores its public key
SetMerchantKey(m, key) ==
    /\ last.op = "idle"
    /\ LET e == IF ~is_merchant(m) THEN "MerchantNotFound" ELSE OK
       IN  /\ merchantKey' = IF e = OK THEN [merchantKey EXCEPT ![m] = key]
                             ELSE merchantKey
           /\ last' = Call("set_merchant_key", m, TRUE, 0, 0, e, 0, 0)
    /\ UNCHANGED <<admin, roles, usedNonces, paused, acceptedTokens, tokenFee,
                   merchantCount, merchantId, merchantAccount, restricted,
                   invoiceCount, invoices, balance, now, subVars, coreVars, feesPaid>>

\* restrict_merchant_account(caller, merchant, status): admin-gated, forwards
\* the flag to the merchant's escrow account contract
RestrictMerchantAccount(caller, m, status) ==
    /\ last.op = "idle"
    /\ IsAdmin(caller)
    /\ is_merchant(m)
    /\ get_merchant_account(merchantId[m]) # NoAddr
    /\ restricted[get_merchant_account(merchantId[m])] # status
    /\ restricted' = [restricted EXCEPT ![get_merchant_account(merchantId[m])] = status]
    /\ UNCHANGED <<admin, roles, merchantKey, usedNonces, paused, acceptedTokens,
                   tokenFee, merchantCount, merchantId, merchantAccount,
                   invoiceCount, invoices, balance, now, last, subVars, coreVars, feesPaid>>

\* access_control::revoke_role: the authenticated stored admin clears the flag
RevokeRole(caller, user, role) ==
    /\ last.op = "idle"
    /\ LET e == IF ~IsAdmin(caller) THEN "NotAuthorized" ELSE OK
       IN  /\ roles' = IF e = OK THEN revoke_role(roles, user, role) ELSE roles
           /\ last' = CallWith("revoke_role", caller, TRUE, 0, 0, <<user, role>>, e, 0, 0)
    /\ UNCHANGED <<admin, merchantKey, usedNonces, paused, acceptedTokens, tokenFee,
                   merchantCount, merchantId, merchantAccount, restricted,
                   invoiceCount, invoices, balance, now, subVars, coreVars, feesPaid>>

\* pausable::pause: the stored admin sets the flag; a paused contract refuses
Pause(caller) ==
    /\ last.op = "idle"
    /\ LET e == IF ~IsAdmin(caller) THEN "NotAuthorized"
                ELSE IF paused THEN "ContractPaused" ELSE OK
       IN  /\ paused' = IF e = OK THEN TRUE ELSE paused
           /\ last' = Call("pause", caller, TRUE, 0, 0, e, 0, 0)
    /\ UNCHANGED <<admin, roles, merchantKey, usedNonces, acceptedTokens, tokenFee,
                   merchantCount, merchantId, merchantAccount, restricted,
                   invoiceCount, invoices, balance, now, subVars, coreVars, feesPaid>>

\* pausable::unpause: the stored admin clears the flag
Unpause(caller) ==
    /\ last.op = "idle"
    /\ LET e == IF ~IsAdmin(caller) THEN "NotAuthorized"
                ELSE IF ~paused THEN "ContractNotPaused" ELSE OK
       IN  /\ paused' = IF e = OK THEN FALSE ELSE paused
           /\ last' = Call("unpause", caller, TRUE, 0, 0, e, 0, 0)
    /\ UNCHANGED <<admin, roles, merchantKey, usedNonces, acceptedTokens, tokenFee,
                   merchantCount, merchantId, merchantAccount, restricted,
                   invoiceCount, invoices, balance, now, subVars, coreVars, feesPaid>>

\* admin::accept_admin_transfer admits the pending admin only
MayAccept_Mut(new_admin) == pendingAdmin # NoAddr

MayAccept(new_admin) == pendingAdmin # NoAddr /\ new_admin = pendingAdmin

\* the pending admin a completed transfer leaves behind
pending_after_accept_Mut(pending) == pending

pending_after_accept(pending) == NoAddr

\* admin::propose_admin_transfer: the authenticated stored admin names the
\* next admin, replacing an earlier proposal
ProposeAdminTransfer(caller, auth, new_admin) ==
    /\ last.op = "idle"
    /\ LET e == IF ~auth THEN AuthError
                ELSE IF ~IsAdmin(caller) THEN "NotAuthorized" ELSE OK
       IN  /\ pendingAdmin' = IF e = OK THEN new_admin ELSE pendingAdmin
           /\ last' = CallWith("propose_admin_transfer", caller, auth, 0, 0, <<new_admin>>, e, 0, 0)
    /\ UNCHANGED <<regVars, usedNonces, invoiceCount, invoices, balance, now, subVars,
                   contractInfo, flagVars, feesPaid>>

\* admin::accept_admin_transfer: the authenticated pending admin becomes the
\* stored admin and the proposal is cleared
AcceptAdminTransfer(new_admin, auth) ==
    /\ last.op = "idle"
    /\ LET e == IF ~auth THEN AuthError
                ELSE IF ~MayAccept(new_admin) THEN "NotAuthorized" ELSE OK
       IN  /\ admin' = IF e = OK THEN new_admin ELSE admin
           /\ contractInfo' = IF e = OK THEN [contractInfo EXCEPT !.admin = new_admin]
                              ELSE contractInfo
           /\ pendingAdmin' = IF e = OK THEN pending_after_accept(pendingAdmin)
                              ELSE pendingAdmin
           /\ last' = Call("accept_admin_transfer", new_admin, auth, 0, 0, e, 0, 0)
    /\ UNCHANGED <<roles, merchantKey, usedNonces, paused, acceptedTokens, tokenFee,
                   merchantCount, merchantId, merchantAccount, restricted,
                   invoiceCount, invoices, balance, now, subVars, flagVars, feesPaid>>

(* --------------------- shade.rs: invoice entry points ------------------ *)

\* pausable::assert_not_paused, the first statement of each entry point below
NotPaused(out) == IF paused THEN Fail("ContractPaused") ELSE out

\* events::publish_invoice_paid_event: a payment that succeeds emits its fee,
\* which adds to the fees emitted for that invoice; a new invoice has none
publish_invoice_paid_event(op, id, out) ==
    [i \in 1..out.count |->
        (IF i \in DOMAIN feesPaid THEN feesPaid[i] ELSE 0)
        + (IF out.err = OK /\ op \in {"pay_invoice", "pay_invoice_partial"} /\ i = id
           THEN out.evFee ELSE 0)]

ApplyWith(op, caller, auth, id, amount, args, out) ==
    /\ last.op = "idle"
    /\ invoices' = Rollback(out).inv
    /\ balance' = Rollback(out).bal
    /\ invoiceCount' = Rollback(out).count
    /\ usedNonces' = Rollback(out).nonces
    /\ last' = CallWith(op, caller, auth, id, amount, args, out.err, out.evAmount,
                        out.evFee)
    /\ feesPaid' = publish_invoice_paid_event(op, id, Rollback(out))
    /\ UNCHANGED <<regVars, now, subVars, coreVars>>

Apply(op, caller, auth, id, amount, out) ==
    ApplyWith(op, caller, auth, id, amount, NoArgs, out)

CreateInvoice(merchant, auth, description, amount, tok, expires_at) ==
    /\ CanCreate
    /\ LET out == NotPaused(create_invoice(merchant, auth, description, amount, tok,
                                           expires_at))
       IN  Apply("create_invoice", merchant, auth,
                 IF out.err = OK THEN out.count ELSE 0, amount, out)

CreateInvoiceSigned(caller, auth, merchant, description, amount, tok, nonce, signature) ==
    LET out == NotPaused(create_invoice_signed(caller, auth, merchant, description,
                                               amount, tok, nonce, signature))
    IN  ApplyWith("create_invoice_signed", caller, auth,
                  IF out.err = OK THEN out.count ELSE 0, amount,
                  <<merchant, description, tok, nonce, signature>>, out)

PayInvoice(payer, auth, invoice_id) ==
    Apply("pay_invoice", payer, auth, invoice_id, 0,
          NotPaused(pay_invoice(payer, auth, invoice_id)))

PayInvoicePartial(payer, auth, invoice_id, amount) ==
    Apply("pay_invoice_partial", payer, auth, invoice_id, amount,
          NotPaused(pay_invoice_partial(payer, auth, invoice_id, amount)))

RefundInvoice(merchant, auth, invoice_id) ==
    Apply("refund_invoice", merchant, auth, invoice_id, 0,
          NotPaused(refund_invoice(merchant, auth, invoice_id)))

RefundInvoicePartial(invoice_id, amount) ==
    Apply("refund_invoice_partial", NoAddr, FALSE, invoice_id, amount,
          NotPaused(refund_invoice_partial(invoice_id, amount)))

VoidInvoice(merchant, auth, invoice_id) ==
    Apply("void_invoice", merchant, auth, invoice_id, 0,
          NotPaused(void_invoice(merchant, auth, invoice_id)))

AmendInvoice(merchant, auth, invoice_id, new_amount, new_description) ==
    Apply("amend_invoice", merchant, auth, invoice_id, new_amount,
          NotPaused(amend_invoice(merchant, auth, invoice_id, new_amount,
                                  new_description)))

(* ------------------------------ ledger time ---------------------------- *)

\* the ledger closes: one second passes, or the whole refund window
AdvanceTime(d) ==
    /\ last.op = "idle"
    /\ \/ d = 1 /\ now % MAX_REFUND_DURATION < MaxTicks + now \div MAX_REFUND_DURATION
       \/ d = MAX_REFUND_DURATION /\ now < MAX_REFUND_DURATION
    /\ now' = now + d
    /\ UNCHANGED <<regVars, usedNonces, invoiceCount, invoices, balance, last, subVars, coreVars, feesPaid>>

(* ---------------------------- specification ---------------------------- *)

InvoiceIds == 1..(MaxInvoices + 1)
Amounts == 0..MaxAmount
Expiries == {NoTime, 1}
\* amend_invoice arguments: a new amount alone, or a new description alone
\* signatures the environment holds: by either key, over an amount of 1 or 2
Signatures ==
    {Sign(k, build_message(m, "x", a, t, n)) :
        k \in Keys, m \in Merchants, a \in {1, 2}, t \in Tokens, n \in Nonces}
Amendments == {<<a, NoAddr>> : a \in Amounts} \cup {<<NoTime, "y">>}

Init ==
    /\ admin = NoAddr
    /\ roles = {}
    /\ merchantKey = [a \in MerchantCallers |-> NoKey]
    /\ usedNonces = {}
    /\ paused = FALSE
    /\ acceptedTokens = {}
    /\ tokenFee = [t \in Tokens |-> -1]
    /\ merchantCount = 0
    /\ merchantId = [a \in MerchantCallers |-> 0]
    /\ merchantAccount = [i \in 1..Cardinality(Merchants) |-> NoAddr]
    /\ restricted = [e \in Escrows |-> FALSE]
    /\ invoiceCount = 0
    /\ invoices = <<>>
    /\ balance = [t \in Tokens |-> [h \in Holders |->
                     IF h = "c1" THEN RichBalance ELSE IF h = "c2" THEN 1 ELSE 0]]
    /\ now = 0
    /\ last = Idle
    /\ planCount = 0
    /\ plans = <<>>
    /\ subscriptionCount = 0
    /\ subscriptions = <<>>
    /\ allowance = [t \in Tokens |-> [c \in Customers |-> 0]]
    /\ feeInBasisPoints = [t \in Tokens |-> -1]
    /\ pendingAdmin = NoAddr
    /\ contractInfo = NoInfo
    /\ accountWasmHash = NoHash
    /\ contractCode = InstalledCode
    /\ merchantActive = [i \in 1..Cardinality(MerchantCallers) |-> FALSE]
    /\ merchantVerified = [i \in 1..Cardinality(MerchantCallers) |-> FALSE]
    /\ feesPaid = <<>>

\* the deployment the test fixtures build: initialize, add_accepted_token,
\* register_merchant and set_merchant_account for both merchants, a manager
\* role granted and the key of merchant m1 registered
InitDeployed ==
    /\ admin = AdminAddr
    /\ roles = {<<ManagerAddr, "Manager">>}
    /\ merchantKey = [a \in MerchantCallers |-> IF a = "m1" THEN "k1" ELSE NoKey]
    /\ usedNonces = {}
    /\ paused = FALSE
    /\ acceptedTokens = Tokens
    /\ tokenFee = [t \in Tokens |-> -1]
    /\ merchantCount = 2
    /\ merchantId = [a \in MerchantCallers |->
                       IF a = "m1" THEN 1 ELSE IF a = "m2" THEN 2 ELSE 0]
    /\ merchantAccount = [i \in 1..Cardinality(Merchants) |->
                            IF i = 1 THEN EscrowOf["m1"] ELSE EscrowOf["m2"]]
    /\ restricted = [e \in Escrows |-> FALSE]
    /\ invoiceCount = 0
    /\ invoices = <<>>
    /\ balance = [t \in Tokens |-> [h \in Holders |->
                     IF h = "c1" THEN RichBalance ELSE IF h = "c2" THEN 1 ELSE 0]]
    /\ now = 0
    /\ last = Idle
    /\ planCount = 0
    /\ plans = <<>>
    /\ subscriptionCount = 0
    /\ subscriptions = <<>>
    /\ allowance = [t \in Tokens |-> [c \in Customers |-> 0]]
    /\ feeInBasisPoints = [t \in Tokens |-> -1]
    /\ pendingAdmin = NoAddr
    /\ contractInfo = [admin |-> AdminAddr, timestamp |-> 0]
    /\ accountWasmHash = NoHash
    /\ contractCode = InstalledCode
    /\ merchantActive = [i \in 1..Cardinality(MerchantCallers) |-> i <= Cardinality(Merchants)]
    /\ merchantVerified = [i \in 1..Cardinality(MerchantCallers) |-> FALSE]
    /\ feesPaid = <<>>

NextInvoice ==
    \/ Settle
    \/ Ready /\ \E t \in Tokens, f \in FeeRates : SetFee(AdminAddr, t, f)
    \/ Ready /\ CanCreate /\
          \E m \in MerchantCallers, auth \in BOOLEAN, a \in Amounts, t \in Tokens,
             e \in Expiries : CreateInvoice(m, auth, "x", a, t, e)
    \/ Ready /\ CanCreate /\
          \E c \in SignedCallers, auth \in BOOLEAN, m \in MerchantCallers,
             a \in Amounts, t \in Tokens, n \in Nonces, sig \in Signatures :
             CreateInvoiceSigned(c, auth, m, "x", a, t, n, sig)
    \/ Ready /\ \E p \in Customers, auth \in BOOLEAN, id \in InvoiceIds :
          PayInvoice(p, auth, id)
    \/ Ready /\ \E p \in Customers, auth \in BOOLEAN, id \in InvoiceIds, a \in Amounts :
          PayInvoicePartial(p, auth, id, a)
    \/ Ready /\ \E m \in MerchantCallers, auth \in BOOLEAN, id \in InvoiceIds :
          RefundInvoice(m, auth, id)
    \/ Ready /\ \E id \in InvoiceIds, a \in Amounts : RefundInvoicePartial(id, a)
    \/ Ready /\ \E m \in MerchantCallers, auth \in BOOLEAN, id \in InvoiceIds :
          VoidInvoice(m, auth, id)
    \/ Ready /\ \E m \in MerchantCallers, auth \in BOOLEAN, id \in InvoiceIds,
                   c \in Amendments : AmendInvoice(m, auth, id, c[1], c[2])
    \/ Ready /\ \E d \in {1, MAX_REFUND_DURATION} : AdvanceTime(d)

SpecInvoice == InitDeployed /\ [][NextInvoice]_vars

\* the deployment of the signature tests: merchant m1 has registered its key,
\* merchant m2 has not yet
MaxSigned == 2
SignedNonces == {"n1", "n2"}
SignedDescriptions == {"x", "y"}
OtherContract == "other"
CanCreateSigned == invoiceCount < MaxSigned

\* signatures an attacker or a merchant can hold: by either key over every
\* invoice tuple, and one made for another deployment of the contract
SignedSignatures ==
    {Sign(k, build_message(m, d, a, t, n)) :
        k \in Keys, m \in Merchants, d \in SignedDescriptions, a \in {1, 2},
        t \in Tokens, n \in SignedNonces}
    \cup {Sign("k1", <<OtherContract, "m1", "n1", 1, "T1", "x">>)}

SignedCalls == {<<ManagerAddr, TRUE>>, <<ManagerAddr, FALSE>>, <<"c1", TRUE>>}

NextSigned ==
    \/ Settle
    \/ Ready /\ \E m \in Merchants, k \in Keys : SetMerchantKey(m, k)
    \/ Ready /\ CanCreateSigned /\
          \E c \in SignedCalls, m \in Merchants, d \in SignedDescriptions,
             a \in {1, 2}, t \in Tokens, n \in SignedNonces, sig \in SignedSignatures :
             CreateInvoiceSigned(c[1], c[2], m, d, a, t, n, sig)
    \/ Ready /\ \E m \in Merchants, id \in 1..MaxSigned : VoidInvoice(m, TRUE, id)

SpecSigned == InitDeployed /\ [][NextSigned]_vars

\* payments and refunds against one merchant whose escrow the admin may
\* restrict, with the fee rate changing underneath
NextAtomic ==
    \/ Settle
    \/ Ready /\ \E t \in Tokens, f \in FeeRates : SetFee(AdminAddr, t, f)
    \/ Ready /\ \E st \in BOOLEAN : RestrictMerchantAccount(AdminAddr, "m1", st)
    \/ Ready /\ CanCreate /\
          \E a \in Amounts, t \in Tokens : CreateInvoice("m1", TRUE, "x", a, t, NoTime)
    \/ Ready /\ \E p \in Customers, auth \in BOOLEAN, id \in InvoiceIds :
          PayInvoice(p, auth, id)
    \/ Ready /\ \E p \in Customers, auth \in BOOLEAN, id \in InvoiceIds, a \in Amounts :
          PayInvoicePartial(p, auth, id, a)
    \/ Ready /\ \E m \in MerchantCallers, auth \in BOOLEAN, id \in InvoiceIds :
          RefundInvoice(m, auth, id)
    \/ Ready /\ \E id \in InvoiceIds, a \in Amounts : RefundInvoicePartial(id, a)

SpecAtomic == InitDeployed /\ [][NextAtomic]_vars

(* ------------------- subscription.rs: recurring billing ---------------- *)

MaxPlans == 1
MaxSubs == 2
MaxNow == 4
HalfFee == 5000

AllowanceError == "TokenAllowance"

\* token.transfer_from(spender = protocol, from, to, amount) of the standard
\* token contract: spends the allowance `from` gave the protocol, then moves
\* the balance
transfer_from_error(bal, allow, tok, from, amount) ==
    IF allow[tok][from] < amount THEN AllowanceError
    ELSE IF ~CanTransfer(bal, tok, from, amount) THEN TokenError
    ELSE OK

SpendAllowance(allow, tok, from, amount) == [allow EXCEPT ![tok][from] = @ - amount]

HasPlan(id) == id \in 1..planCount
HasSubscription(id) == id \in 1..subscriptionCount

\* outcome of a failed subscription invocation: nothing is written
SubFail(e) ==
    [err |-> e, plans |-> plans, planCount |-> planCount, subs |-> subscriptions,
     subCount |-> subscriptionCount, bal |-> balance, allow |-> allowance,
     evAmount |-> 0, evFee |-> 0, late |-> FALSE]

\* a panic after transfers were made: the handler stops with error e, having
\* moved tokens and spent allowance to `bal` and `allow`
SubTrap(e, bal, allow) == [SubFail(e) EXCEPT !.bal = bal, !.allow = allow]

\* the host's end of a subscription invocation: a panic loses every storage
\* write, transfer and allowance spent
SubRollback(out) == IF out.err = OK THEN out ELSE [SubFail(out.err) EXCEPT !.late = out.late]

create_subscription_plan(merchant, auth, tok, amount, interval) ==
    IF ~auth THEN SubFail(AuthError)
    ELSE IF amount <= 0 THEN SubFail("InvalidAmount")
    ELSE IF interval = 0 THEN SubFail("InvalidInterval")
    ELSE LET plan_id == next_id(planCount)
             plan == [id |-> plan_id, merchant |-> merchant, token |-> tok,
                      amount |-> amount, interval |-> interval, active |-> TRUE]
         IN  [SubFail(OK) EXCEPT
                 !.plans = [i \in 1..plan_id |-> IF i = plan_id THEN plan ELSE plans[i]],
                 !.planCount = plan_id]

subscribe(customer, auth, plan_id) ==
    IF ~auth THEN SubFail(AuthError)
    ELSE IF ~HasPlan(plan_id) THEN SubFail("NotFound")
    ELSE IF ~plans[plan_id].active THEN SubFail("PlanNotActive")
    ELSE LET subscription_id == next_id(subscriptionCount)
             subscription == [id |-> subscription_id, plan_id |-> plan_id,
                              customer |-> customer, last_charge_date |-> 0,
                              status |-> "Active"]
         IN  [SubFail(OK) EXCEPT
                 !.subs = [i \in 1..subscription_id |->
                              IF i = subscription_id THEN subscription
                              ELSE subscriptions[i]],
                 !.subCount = subscription_id]

IsActive_Mut(subscription) == TRUE

IsActive(subscription) == subscription.status = "Active"

\* variant: a subscription whose last_charge_date is 0 may always be charged
IntervalNotElapsed_NeverCharged(subscription, plan) ==
    /\ subscription.last_charge_date > 0
    /\ now < subscription.last_charge_date + plan.interval

IntervalNotElapsed_Mut(subscription, plan) ==
    now <= subscription.last_charge_date + plan.interval

\* the billing interval check of charge_subscription
IntervalNotElapsed(subscription, plan) ==
    now < subscription.last_charge_date + plan.interval

\* the fee of a charge, from DataKey::FeeInBasisPoints
subscription_fee(plan) ==
    LET fee_bps == IF feeInBasisPoints[plan.token] = -1 THEN 0
                   ELSE feeInBasisPoints[plan.token]
    IN  (plan.amount * fee_bps) \div BASIS_POINTS

charge_subscription(subscription_id) ==
    IF ~HasSubscription(subscription_id) THEN SubFail("NotFound")
    ELSE LET subscription == subscriptions[subscription_id] IN
    IF ~IsActive(subscription) THEN SubFail("SubscriptionNotActive")
    ELSE IF ~HasPlan(subscription.plan_id) THEN SubFail("NotFound")
    ELSE LET plan == plans[subscription.plan_id] IN
    IF IntervalNotElapsed(subscription, plan) THEN SubFail("IntervalNotElapsed")
    ELSE LET fee == subscription_fee(plan)
             net == plan.amount - fee
         IN
    IF merchantId[plan.merchant] = 0 THEN SubFail("MerchantNotFound")
    ELSE IF merchantAccount[merchantId[plan.merchant]] = NoAddr
    THEN SubFail("MerchantAccountNotFound")
    ELSE LET merchant_account == merchantAccount[merchantId[plan.merchant]]
             e1 == IF fee > 0
                   THEN transfer_from_error(balance, allowance, plan.token,
                                            subscription.customer, fee)
                   ELSE OK
         IN
    IF e1 # OK THEN SubFail(e1)
    ELSE LET bal1 == IF fee > 0
                     THEN Transfer(balance, plan.token, subscription.customer,
                                   ShadeAddr, fee)
                     ELSE balance
             allow1 == IF fee > 0
                       THEN SpendAllowance(allowance, plan.token, subscription.customer, fee)
                       ELSE allowance
             e2 == transfer_from_error(bal1, allow1, plan.token, subscription.customer, net)
         IN
    IF e2 # OK THEN SubTrap(e2, bal1, allow1)
    ELSE [SubFail(OK) EXCEPT
             !.subs = [subscriptions EXCEPT ![subscription_id].last_charge_date = now],
             !.bal = Transfer(bal1, plan.token, subscription.customer,
                              merchant_account, net),
             !.allow = SpendAllowance(allow1, plan.token, subscription.customer, net),
             !.evAmount = plan.amount,
             !.evFee = fee]

MayCancel_Mut(caller, subscription, plan) == TRUE

\* only the customer or the merchant that owns the plan may cancel
MayCancel(caller, subscription, plan) ==
    caller = subscription.customer \/ caller = plan.merchant

cancel_subscription(caller, auth, subscription_id) ==
    IF ~auth THEN SubFail(AuthError)
    ELSE IF ~HasSubscription(subscription_id) THEN SubFail("NotFound")
    ELSE LET subscription == subscriptions[subscription_id] IN
    IF ~HasPlan(subscription.plan_id) THEN SubFail("NotFound")
    ELSE IF ~MayCancel(caller, subscription, plans[subscription.plan_id])
    THEN SubFail("NotAuthorized")
    ELSE [SubFail(OK) EXCEPT
             !.subs = [subscriptions EXCEPT ![subscription_id].status = "Cancelled"]]

(* ------------------- shade.rs: subscription entry points --------------- *)

SubNotPaused(out) == IF paused THEN SubFail("ContractPaused") ELSE out

ApplySubWith(op, caller, auth, id, amount, args, out) ==
    /\ last.op = "idle"
    /\ plans' = SubRollback(out).plans
    /\ planCount' = SubRollback(out).planCount
    /\ subscriptions' = SubRollback(out).subs
    /\ subscriptionCount' = SubRollback(out).subCount
    /\ balance' = SubRollback(out).bal
    /\ allowance' = SubRollback(out).allow
    /\ last' = CallWith(op, caller, auth, id, amount, args, out.err, out.evAmount,
                        out.evFee)
    /\ UNCHANGED <<regVars, usedNonces, invoiceCount, invoices, now, feeInBasisPoints, coreVars, feesPaid>>

ApplySub(op, caller, auth, id, amount, out) ==
    ApplySubWith(op, caller, auth, id, amount, NoArgs, out)

CreatePlan(merchant, auth, amount, tok, interval) ==
    LET out == SubNotPaused(create_subscription_plan(merchant, auth, tok, amount, interval))
    IN  ApplySub("create_plan", merchant, auth,
                 IF out.err = OK THEN out.planCount ELSE 0, amount, out)

Subscribe(customer, auth, plan_id) ==
    LET out == SubNotPaused(subscribe(customer, auth, plan_id))
    IN  ApplySubWith("subscribe", customer, auth,
                     IF out.err = OK THEN out.subCount ELSE 0, 0, <<plan_id>>, out)

ChargeSubscription(subscription_id) ==
    ApplySub("charge_subscription", NoAddr, FALSE, subscription_id, 0,
             SubNotPaused(charge_subscription(subscription_id)))

CancelSubscription(caller, auth, subscription_id) ==
    ApplySub("cancel_subscription", caller, auth, subscription_id, 0,
             SubNotPaused(cancel_subscription(caller, auth, subscription_id)))

\* token.approve(customer, spender = protocol, amount), a call on the token contract
Approve(customer, tok, amount) ==
    /\ last.op = "idle"
    /\ allowance[tok][customer] # amount
    /\ allowance' = [allowance EXCEPT ![tok][customer] = amount]
    /\ UNCHANGED <<regVars, usedNonces, invoiceCount, invoices, balance, now, last,
                   planCount, plans, subscriptionCount, subscriptions, feeInBasisPoints, coreVars, feesPaid>>

\* the ledger closes: one second passes
Tick ==
    /\ last.op = "idle"
    /\ now < MaxNow
    /\ now' = now + 1
    /\ UNCHANGED <<regVars, usedNonces, invoiceCount, invoices, balance, last, subVars, coreVars, feesPaid>>

CanCreatePlan == planCount < MaxPlans
CanSubscribe == subscriptionCount < MaxSubs
PlanMerchants == {"m1", "c1"}
SubCallers == {"c1", "c2", "m1", "m2"}
Intervals == {0, 1, 2}
PlanAmounts == {0, 2}
SubIds == 1..(MaxSubs + 1)

\* the deployment the subscription tests build; the fee key read by
\* charge_subscription is either unset or holds a rate of one half
InitSub ==
    /\ admin = AdminAddr
    /\ roles = {}
    /\ merchantKey = [a \in MerchantCallers |-> NoKey]
    /\ usedNonces = {}
    /\ paused = FALSE
    /\ acceptedTokens = Tokens
    /\ tokenFee = [t \in Tokens |-> -1]
    /\ merchantCount = 2
    /\ merchantId = [a \in MerchantCallers |->
                       IF a = "m1" THEN 1 ELSE IF a = "m2" THEN 2 ELSE 0]
    /\ merchantAccount = [i \in 1..Cardinality(Merchants) |->
                            IF i = 1 THEN EscrowOf["m1"] ELSE EscrowOf["m2"]]
    /\ restricted = [e \in Escrows |-> FALSE]
    /\ invoiceCount = 0
    /\ invoices = <<>>
    /\ balance = [t \in Tokens |-> [h \in Holders |->
                     IF h = "c1" THEN RichBalance ELSE IF h = "c2" THEN 1 ELSE 0]]
    /\ now = 0
    /\ last = Idle
    /\ planCount = 0
    /\ plans = <<>>
    /\ subscriptionCount = 0
    /\ subscriptions = <<>>
    /\ allowance = [t \in Tokens |-> [c \in Customers |-> 0]]
    /\ feeInBasisPoints \in [Tokens -> {-1, HalfFee}]
    /\ pendingAdmin = NoAddr
    /\ contractInfo = [admin |-> AdminAddr, timestamp |-> 0]
    /\ accountWasmHash = NoHash
    /\ contractCode = InstalledCode
    /\ merchantActive = [i \in 1..Cardinality(MerchantCallers) |-> i <= Cardinality(Merchants)]
    /\ merchantVerified = [i \in 1..Cardinality(MerchantCallers) |-> FALSE]
    /\ feesPaid = <<>>

NextSub ==
    \/ Settle
    \/ Ready /\ Tick
    \/ Ready /\ \E c \in Customers, t \in Tokens : Approve(c, t, RichBalance)
    \/ Ready /\ CanCreatePlan /\
          \E m \in PlanMerchants, auth \in BOOLEAN, a \in PlanAmounts, t \in Tokens,
             i \in Intervals : CreatePlan(m, auth, a, t, i)
    \/ Ready /\ CanSubscribe /\
          \E c \in Customers, auth \in BOOLEAN, p \in 1..(MaxPlans + 1) : Subscribe(c, auth, p)
    \/ Ready /\ \E id \in SubIds : ChargeSubscription(id)
    \/ Ready /\ \E c \in SubCallers, auth \in BOOLEAN, id \in SubIds :
          CancelSubscription(c, auth, id)

SpecSub == InitSub /\ [][NextSub]_vars

\* invoices and subscriptions of merchant m1 side by side, while the admin
\* changes the fee and the accepted tokens
NextPayments ==
    \/ Settle
    \/ Ready /\ Tick
    \/ Ready /\ \E t \in Tokens, f \in FeeRates : SetFee(AdminAddr, t, f)
    \/ Ready /\ \E t \in Tokens : RemoveAcceptedToken(AdminAddr, t)
    \/ Ready /\ \E t \in Tokens : AddAcceptedToken(AdminAddr, t)
    \/ Ready /\ CanCreate /\ \E t \in Tokens : CreateInvoice("m1", TRUE, "x", 2, t, NoTime)
    \/ Ready /\ \E p \in Customers, id \in 1..MaxInvoices : PayInvoice(p, TRUE, id)
    \/ Ready /\ \E p \in Customers, id \in 1..MaxInvoices : PayInvoicePartial(p, TRUE, id, 1)
    \/ Ready /\ \E c \in Customers, t \in Tokens : Approve(c, t, RichBalance)
    \/ Ready /\ CanCreatePlan /\ \E t \in Tokens : CreatePlan("m1", TRUE, 2, t, 1)
    \/ Ready /\ CanSubscribe /\ \E c \in Customers : Subscribe(c, TRUE, 1)
    \/ Ready /\ \E id \in 1..MaxSubs : ChargeSubscription(id)

SpecPayments == InitDeployed /\ [][NextPayments]_vars

\* administration from construction: initialization, the admin hand-over,
\* roles and the pause switch, next to entry points of the registry
AdminCandidates == {AdminAddr, ManagerAddr}
RoleUsers == {ManagerAddr}

NextAdmin ==
    \/ Settle
    \/ Ready /\ AdvanceTime(1)
    \/ Ready /\ \E a \in AdminCandidates : Initialize(a)
    \/ Ready /\ \E c \in AdminCandidates : Pause(c)
    \/ Ready /\ \E c \in AdminCandidates : Unpause(c)
    \/ Ready /\ \E c \in AdminCandidates, auth \in BOOLEAN, n \in AdminCandidates :
          ProposeAdminTransfer(c, auth, n)
    \/ Ready /\ \E n \in AdminCandidates, auth \in BOOLEAN : AcceptAdminTransfer(n, auth)
    \/ Ready /\ \E c \in AdminCandidates, u \in RoleUsers, r \in Roles :
          GrantRole(c, u, r)
    \/ Ready /\ \E c \in AdminCandidates, u \in RoleUsers, r \in Roles :
          RevokeRole(c, u, r)
    \/ Ready /\ \E c \in AdminCandidates, t \in Tokens : AddAcceptedToken(c, t)
    \/ Ready /\ \E c \in AdminCandidates, ts \in SUBSET Tokens : AddAcceptedTokens(c, ts)
    \/ Ready /\ \E c \in AdminCandidates, t \in Tokens : SetFee(c, t, HalfFee)
    \/ Ready /\ RegisterMerchant("m1")
    \/ Ready /\ \E k \in Keys : SetMerchantKey("m1", k)
    \/ Ready /\ SetMerchantAccount("m1", EscrowOf["m1"])
    \/ Ready /\ CanCreate /\ \E t \in Tokens : CreateInvoice("m1", TRUE, "x", 2, t, NoTime)

SpecAdmin == Init /\ [][NextAdmin]_vars

\* the four creating entry points and merchant registration from
\* construction, with calls that fail (no auth, zero amount, paused contract,
\* wrong signature, unknown plan) among those that succeed
MaxCount == 2
CanCreateMore == planCount < MaxCount
CounterSignatures == {Sign(k, build_message("m1", "x", 2, t, n)) : k \in Keys, t \in Tokens, n \in SignedNonces}

NextCounters ==
    \/ Settle
    \/ Ready /\ Initialize(AdminAddr)
    \/ Ready /\ \E t \in Tokens : AddAcceptedToken(AdminAddr, t)
    \/ Ready /\ GrantRole(AdminAddr, ManagerAddr, "Manager")
    \/ Ready /\ Pause(AdminAddr)
    \/ Ready /\ Unpause(AdminAddr)
    \/ Ready /\ \E m \in MerchantCallers : RegisterMerchant(m)
    \/ Ready /\ SetMerchantKey("m1", "k1")
    \/ Ready /\ CanCreate /\
          \E m \in Merchants, auth \in BOOLEAN, a \in PlanAmounts, t \in Tokens :
             CreateInvoice(m, auth, "x", a, t, NoTime)
    \/ Ready /\ CanCreateSigned /\
          \E t \in Tokens, n \in SignedNonces, sig \in CounterSignatures :
             CreateInvoiceSigned(ManagerAddr, TRUE, "m1", "x", 2, t, n, sig)
    \/ Ready /\ CanCreateMore /\
          \E auth \in BOOLEAN, a \in PlanAmounts, t \in Tokens : CreatePlan("m1", auth, a, t, 1)
    \/ Ready /\ CanSubscribe /\ \E c \in Customers, p \in 1..MaxCount : Subscribe(c, TRUE, p)
    \/ Ready /\ \E id \in 1..MaxSigned : VoidInvoice("m1", TRUE, id)
    \/ Ready /\ \E c \in Customers, id \in 1..MaxSubs : CancelSubscription(c, TRUE, id)

SpecCounters == Init /\ [][NextCounters]_vars

\* every entry point, from construction
Next ==
    \/ Settle
    \/ Ready /\ Initialize(AdminAddr)
    \/ Ready /\ \E t \in Tokens : AddAcceptedToken(AdminAddr, t)
    \/ Ready /\ \E ts \in SUBSET Tokens : AddAcceptedTokens(AdminAddr, ts)
    \/ Ready /\ \E id \in 1..Cardinality(MerchantCallers), st \in BOOLEAN :
          SetMerchantStatus(AdminAddr, id, st)
    \/ Ready /\ \E id \in 1..Cardinality(MerchantCallers), st \in BOOLEAN :
          VerifyMerchant(AdminAddr, id, st)
    \/ Ready /\ \E h \in Hashes : SetAccountWasmHash(AdminAddr, h)
    \/ Ready /\ \E auth \in BOOLEAN, h \in Hashes : Upgrade(auth, h)
    \/ Ready /\ \E t \in Tokens : RemoveAcceptedToken(AdminAddr, t)
    \/ Ready /\ \E m \in Merchants : RegisterMerchant(m)
    \/ Ready /\ \E m \in Merchants : SetMerchantAccount(m, EscrowOf[m])
    \/ Ready /\ GrantRole(AdminAddr, ManagerAddr, "Manager")
    \/ Ready /\ RevokeRole(AdminAddr, ManagerAddr, "Manager")
    \/ Ready /\ Pause(AdminAddr)
    \/ Ready /\ Unpause(AdminAddr)
    \/ Ready /\ \E n \in AdminCandidates : ProposeAdminTransfer(AdminAddr, TRUE, n)
    \/ Ready /\ \E n \in AdminCandidates : AcceptAdminTransfer(n, TRUE)
    \/ Ready /\ \E m \in Merchants : SetMerchantKey(m, "k1")
    \/ Ready /\ \E t \in Tokens, f \in FeeRates : SetFee(AdminAddr, t, f)
    \/ Ready /\ \E m \in Merchants, st \in BOOLEAN :
          RestrictMerchantAccount(AdminAddr, m, st)
    \/ Ready /\ CanCreate /\
          \E m \in MerchantCallers, auth \in BOOLEAN, a \in Amounts, t \in Tokens,
             e \in Expiries : CreateInvoice(m, auth, "x", a, t, e)
    \/ Ready /\ CanCreate /\
          \E c \in SignedCallers, auth \in BOOLEAN, m \in MerchantCallers,
             a \in Amounts, t \in Tokens, n \in Nonces, sig \in Signatures :
             CreateInvoiceSigned(c, auth, m, "x", a, t, n, sig)
    \/ Ready /\ \E p \in Customers, auth \in BOOLEAN, id \in InvoiceIds :
          PayInvoice(p, auth, id)
    \/ Ready /\ \E p \in Customers, auth \in BOOLEAN, id \in InvoiceIds, a \in Amounts :
          PayInvoicePartial(p, auth, id, a)
    \/ Ready /\ \E m \in MerchantCallers, auth \in BOOLEAN, id \in InvoiceIds :
          RefundInvoice(m, auth, id)
    \/ Ready /\ \E id \in InvoiceIds, a \in Amounts : RefundInvoicePartial(id, a)
    \/ Ready /\ \E m \in MerchantCallers, auth \in BOOLEAN, id \in InvoiceIds :
          VoidInvoice(m, auth, id)
    \/ Ready /\ \E m \in MerchantCallers, auth \in BOOLEAN, id \in InvoiceIds,
                   c \in Amendments : AmendInvoice(m, auth, id, c[1], c[2])
    \/ Ready /\ \E d \in {1, MAX_REFUND_DURATION} : AdvanceTime(d)
    \/ Ready /\ \E c \in Customers, t \in Tokens : Approve(c, t, RichBalance)
    \/ Ready /\ CanCreatePlan /\
          \E m \in PlanMerchants, auth \in BOOLEAN, a \in PlanAmounts, t \in Tokens,
             i \in Intervals : CreatePlan(m, auth, a, t, i)
    \/ Ready /\ CanSubscribe /\
          \E c \in Customers, auth \in BOOLEAN, p \in 1..(MaxPlans + 1) : Subscribe(c, auth, p)
    \/ Ready /\ \E id \in SubIds : ChargeSubscription(id)
    \/ Ready /\ \E c \in SubCallers, auth \in BOOLEAN, id \in SubIds :
          CancelSubscription(c, auth, id)

Spec == Init /\ [][Next]_vars

(* ------------------------------- claims -------------------------------- *)

PayOps == {"pay_invoice", "pay_invoice_partial"}
RefundOps == {"refund_invoice", "refund_invoice_partial"}

\* C1: every stored invoice has amount > 0, 0 <= amount_paid <= amount and
\* 0 <= amount_refunded <= amount, after any sequence of entry-point calls.
C1_AmountsInRange ==
    \A id \in DOMAIN invoices :
        /\ invoices[id].amount > 0
        /\ 0 <= invoices[id].amount_paid
        /\ invoices[id].amount_paid <= invoices[id].amount
        /\ 0 <= invoices[id].amount_refunded
        /\ invoices[id].amount_refunded <= invoices[id].amount

\* an amended invoice that was paid in steps and then refunded in part
C1_Witness ==
    /\ last.op = "refund_invoice_partial"
    /\ last.err = OK
    /\ invoices[last.id].description = "y"
    /\ invoices[last.id].amount_paid = invoices[last.id].amount
    /\ invoices[last.id].amount_refunded > 0
    /\ invoices[last.id].amount_refunded < invoices[last.id].amount

\* C2: the status of every stored invoice agrees with its amounts, in both
\* directions: Paid iff amount_paid = amount and nothing refunded,
\* PartiallyPaid iff 0 < amount_paid < amount, Refunded iff
\* amount_refunded = amount, PartiallyRefunded iff
\* 0 < amount_refunded < amount and amount_paid = amount.
C2_StatusMatchesAmounts ==
    \A id \in DOMAIN invoices :
        LET i == invoices[id] IN
        /\ i.status = "Paid" <=> (i.amount_paid = i.amount /\ i.amount_refunded = 0)
        /\ i.status = "PartiallyPaid" <=> (0 < i.amount_paid /\ i.amount_paid < i.amount)
        /\ i.status = "Refunded" <=> i.amount_refunded = i.amount
        /\ i.status = "PartiallyRefunded" <=>
               (0 < i.amount_refunded /\ i.amount_refunded < i.amount
                /\ i.amount_paid = i.amount)

\* a partial payment that completes an invoice already paid in part
C2_Witness ==
    /\ last.op = "pay_invoice_partial"
    /\ last.err = OK
    /\ last.amount < invoices[last.id].amount
    /\ invoices[last.id].status = "Paid"

StatusChanges ==
    {<<"Pending", "PartiallyPaid">>, <<"Pending", "Paid">>, <<"PartiallyPaid", "Paid">>,
     <<"Pending", "Cancelled">>, <<"Paid", "PartiallyRefunded">>, <<"Paid", "Refunded">>,
     <<"PartiallyRefunded", "Refunded">>}

\* C3: every change of an invoice's status is one of Pending->PartiallyPaid,
\* Pending->Paid, PartiallyPaid->Paid, Pending->Cancelled,
\* Paid->PartiallyRefunded, Paid->Refunded, PartiallyRefunded->Refunded; and
\* once an invoice is Cancelled or Refunded, no step changes its status,
\* amount_paid or amount_refunded.
C3_Lifecycle ==
    [][\A id \in DOMAIN invoices :
          /\ \/ invoices'[id].status = invoices[id].status
             \/ <<invoices[id].status, invoices'[id].status>> \in StatusChanges
          /\ invoices[id].status \in {"Cancelled", "Refunded"} =>
                /\ invoices'[id].status = invoices[id].status
                /\ invoices'[id].amount_paid = invoices[id].amount_paid
                /\ invoices'[id].amount_refunded = invoices[id].amount_refunded]_vars

\* a payment attempted on a refunded invoice, and turned down
C3_Witness ==
    /\ last.op \in PayOps
    /\ last.auth
    /\ last.err = "InvalidInvoiceStatus"
    /\ HasInvoice(last.id)
    /\ invoices[last.id].status = "Refunded"

\* the step is the invocation of an entry point, whose result is last'
Invoked(ops) == last.op = "idle" /\ last'.op \in ops

NothingMoved == invoices' = invoices /\ balance' = balance /\ invoiceCount' = invoiceCount

FeeRateOf(tok) == IF tokenFee[tok] = -1 THEN 0 ELSE tokenFee[tok]

\* C4: a successful pay_invoice or pay_invoice_partial of amount a on a token
\* with fee rate bp in [0, 10000] takes fee = floor(a * bp / 10000): the payer
\* loses exactly a, the merchant's escrow gains a - fee, the protocol gains
\* fee, 0 <= fee <= a, and the InvoicePaid event carries a and fee.
C4_FeeSplit ==
    [][(Invoked(PayOps) /\ last'.err = OK) =>
          LET i == invoices[last'.id]
              a == last'.evAmount
              bp == FeeRateOf(i.token)
              fee == (a * bp) \div 10000
              escrow == merchantAccount[i.merchant_id]
              payer == last'.caller
          IN  bp \in 0..10000 =>
              /\ a = IF last'.op = "pay_invoice" THEN i.amount - i.amount_paid
                     ELSE last'.amount
              /\ 0 <= fee /\ fee <= a
              /\ last'.evFee = fee
              /\ balance'[i.token][payer] = balance[i.token][payer] - a
              /\ balance'[i.token][escrow] = balance[i.token][escrow] + a - fee
              /\ balance'[i.token][ShadeAddr] = balance[i.token][ShadeAddr] + fee
              /\ bp = 0 => balance'[i.token][escrow] = balance[i.token][escrow] + a
              /\ bp = 10000 =>
                    balance'[i.token][ShadeAddr] = balance[i.token][ShadeAddr] + a]_vars

\* a payment of 3 at 5000 bp: the fee of 1.5 is rounded down to 1
C4_Witness ==
    /\ last.op \in PayOps
    /\ last.err = OK
    /\ last.evAmount = 3
    /\ last.evFee = 1
    /\ tokenFee[invoices[last.id].token] = 5000

\* C5 (as claimed): once an invoice has a payer, a payment by a different
\* address that passes every other precondition of the payment (authenticated,
\* positive amount within the remainder, invoice payable and not expired,
\* token accepted, merchant account set) fails with NotAuthorized.
C5_OtherPayerNotAuthorized ==
    (/\ last.op \in PayOps
     /\ last.auth
     /\ HasInvoice(last.id)
     /\ ~paused
     /\ LET i == invoices[last.id] IN
        /\ i.payer \notin {NoAddr, last.caller}
        /\ i.status \in {"Pending", "PartiallyPaid"}
        /\ ~(i.expires_at # NoTime /\ now >= i.expires_at)
        /\ last.op = "pay_invoice_partial" =>
              (last.amount > 0 /\ i.amount_paid + last.amount <= i.amount)
        /\ i.token \in acceptedTokens
        /\ merchantAccount[i.merchant_id] # NoAddr)
    => last.err = "NotAuthorized"

\* C6: refund_invoice succeeds only for an authenticated caller that is the
\* registered merchant whose id the invoice carries; an authenticated caller
\* that is unregistered or another merchant fails with NotAuthorized, and
\* neither the invoice nor any balance changes.
C6_RefundByOwnerOnly ==
    [][(Invoked({"refund_invoice"}) /\ HasInvoice(last'.id) /\ ~paused) =>
          LET i == invoices[last'.id]
              owner == /\ merchantId[last'.caller] # 0
                       /\ merchantId[last'.caller] = i.merchant_id
          IN  /\ last'.err = OK => (last'.auth /\ owner)
              /\ (last'.auth /\ ~owner) =>
                    (last'.err = "NotAuthorized" /\ NothingMoved)]_vars

\* another registered merchant tried to refund a paid invoice
C6_Witness ==
    /\ last.op = "refund_invoice"
    /\ last.auth
    /\ last.err = "NotAuthorized"
    /\ merchantId[last.caller] # 0
    /\ invoices[last.id].status = "Paid"

InitialBalance(h) == IF h = "c1" THEN RichBalance ELSE IF h = "c2" THEN 1 ELSE 0

\* C7 (as claimed): refund_invoice by the owning merchant on an invoice that
\* was paid in full and not yet refunded, within the refund window, succeeds
\* and leaves the payer with its starting balance minus the protocol fee, the
\* escrow (empty at the start) at zero and the fee with the protocol.
C7_PayThenRefundRestoresNet ==
    (/\ last.op = "refund_invoice"
     /\ last.auth
     /\ HasInvoice(last.id)
     /\ ~paused
     /\ invoiceCount = 1
     /\ LET i == invoices[last.id] IN
        /\ merchantId[last.caller] = i.merchant_id
        /\ i.date_paid # NoTime
        /\ now - i.date_paid <= MAX_REFUND_DURATION
        /\ \/ last.err # OK /\ i.status = "Paid"
           \/ last.err = OK /\ i.status = "Refunded" /\ last.evAmount = i.amount)
    => LET i == invoices[last.id]
           escrow == merchantAccount[i.merchant_id]
       IN  /\ last.err = OK
           /\ balance[i.token][i.payer] =
                 InitialBalance(i.payer) - balance[i.token][ShadeAddr]
           /\ balance[i.token][escrow] = 0


\* C8: the refund window is measured from date_paid and is inclusive. For a
\* Paid or PartiallyRefunded invoice (refund_invoice called by its
\* authenticated owner), a refund at now - date_paid >= 604801 fails with
\* RefundPeriodExpired and changes nothing; at now - date_paid <= 604800 it
\* is never rejected for the window, and it succeeds whenever the amount is
\* positive and within the unrefunded remainder and the escrow is
\* unrestricted and holds the amount.
C8_RefundWindow ==
    [][(Invoked(RefundOps) /\ HasInvoice(last'.id) /\ ~paused) =>
          LET i == invoices[last'.id]
              elapsed == now - i.date_paid
              full == last'.op = "refund_invoice"
              amt == IF full THEN i.amount - i.amount_refunded ELSE last'.amount
              escrow == merchantAccount[i.merchant_id]
          IN  (/\ i.status \in {"Paid", "PartiallyRefunded"}
               /\ i.date_paid # NoTime
               /\ full => (last'.auth /\ merchantId[last'.caller] = i.merchant_id))
              => /\ elapsed >= 604801 =>
                       (last'.err = "RefundPeriodExpired" /\ NothingMoved)
                 /\ elapsed <= 604800 =>
                       /\ last'.err # "RefundPeriodExpired"
                       /\ (/\ amt > 0
                           /\ i.amount_refunded + amt <= i.amount
                           /\ escrow # NoAddr
                           /\ ~restricted[escrow]
                           /\ balance[i.token][escrow] >= amt)
                          => /\ last'.err = OK
                             /\ invoices'[last'.id].amount_refunded =
                                   i.amount_refunded + amt
                             /\ balance'[i.token][i.payer] =
                                   balance[i.token][i.payer] + amt]_vars

\* a refund accepted exactly 604800 seconds after the payment
C8_Witness ==
    /\ last.op \in RefundOps
    /\ last.err = OK
    /\ now - invoices[last.id].date_paid = MAX_REFUND_DURATION

\* C9 (as claimed): every authenticated payment on an invoice with
\* expires_at = E at now >= E fails with InvoiceExpired.
C9_AlwaysInvoiceExpired ==
    [][(Invoked(PayOps) /\ HasInvoice(last'.id) /\ ~paused /\ last'.auth) =>
          LET i == invoices[last'.id]
          IN  (/\ i.expires_at # NoTime
               /\ now >= i.expires_at
               /\ last'.op = "pay_invoice_partial" => last'.amount > 0)
              => (last'.err = "InvoiceExpired" /\ NothingMoved)]_vars

\* C9 (amended): at now >= E every payment fails and changes neither the
\* invoice nor any balance; the error is InvoiceExpired for an authenticated
\* pay_invoice_partial of a positive amount and for an authenticated
\* pay_invoice on a Pending or PartiallyPaid invoice, and InvalidInvoiceStatus
\* for pay_invoice on an invoice in any other status. At now < E, and on an
\* invoice without expires_at, no payment fails with InvoiceExpired.
C9_Expiry ==
    [][(Invoked(PayOps) /\ HasInvoice(last'.id) /\ ~paused) =>
          LET i == invoices[last'.id]
              expired == i.expires_at # NoTime /\ now >= i.expires_at
              payable == i.status \in {"Pending", "PartiallyPaid"}
          IN  /\ expired => (last'.err # OK /\ NothingMoved)
              /\ (expired /\ last'.auth /\ last'.op = "pay_invoice_partial"
                     /\ last'.amount > 0) => last'.err = "InvoiceExpired"
              /\ (expired /\ last'.auth /\ last'.op = "pay_invoice" /\ payable)
                    => last'.err = "InvoiceExpired"
              /\ (expired /\ last'.op = "pay_invoice" /\ ~payable)
                    => last'.err = "InvalidInvoiceStatus"
              /\ ~expired => last'.err # "InvoiceExpired"]_vars

\* pay_invoice refused at the very second the invoice expires
C9_Witness ==
    /\ last.op = "pay_invoice"
    /\ last.err = "InvoiceExpired"
    /\ invoices[last.id].status = "PartiallyPaid"
    /\ now = invoices[last.id].expires_at

\* C10 (as claimed): an authenticated pay_invoice_partial of a positive
\* amount that would make amount_paid exceed amount, on an unexpired invoice
\* that has received a payment, fails with InvalidAmount.
C10_AlwaysInvalidAmount ==
    [][(Invoked({"pay_invoice_partial"}) /\ HasInvoice(last'.id) /\ ~paused
           /\ last'.auth) =>
          LET i == invoices[last'.id]
          IN  (/\ last'.amount > 0
               /\ ~(i.expires_at # NoTime /\ now >= i.expires_at)
               /\ i.amount_paid > 0
               /\ i.amount_paid + last'.amount > i.amount)
              => (last'.err = "InvalidAmount" /\ NothingMoved)]_vars

\* C10 (amended): an authenticated pay_invoice_partial of a positive amount
\* that would make amount_paid exceed amount, on an unexpired invoice, changes
\* nothing and fails with InvalidAmount when the invoice is Pending or
\* PartiallyPaid, and with InvalidInvoiceStatus when it is in any other
\* status (in particular when it was already paid in full).
C10_Overpay ==
    [][(Invoked({"pay_invoice_partial"}) /\ HasInvoice(last'.id) /\ ~paused
           /\ last'.auth) =>
          LET i == invoices[last'.id]
              payable == i.status \in {"Pending", "PartiallyPaid"}
          IN  (/\ last'.amount > 0
               /\ ~(i.expires_at # NoTime /\ now >= i.expires_at)
               /\ i.amount_paid + last'.amount > i.amount)
              => /\ NothingMoved
                 /\ payable => last'.err = "InvalidAmount"
                 /\ ~payable => last'.err = "InvalidInvoiceStatus"]_vars

\* one more unit offered on an invoice already paid in full by two parts
C10_Witness ==
    /\ last.op = "pay_invoice_partial"
    /\ last.auth
    /\ last.amount = 1
    /\ last.err = "InvalidInvoiceStatus"
    /\ invoices[last.id].status = "Paid"
    /\ invoices[last.id].amount_paid = invoices[last.id].amount
    /\ invoices[last.id].amount = 2

StatusOps == {"pay_invoice", "pay_invoice_partial", "refund_invoice",
              "refund_invoice_partial", "void_invoice", "amend_invoice"}

\* the source statuses the operation accepts
AllowedFrom(op) ==
    IF op \in PayOps THEN {"Pending", "PartiallyPaid"}
    ELSE IF op \in RefundOps THEN {"Paid", "PartiallyRefunded"}
    ELSE {"Pending"}

\* the call recorded in last' comes from a correctly authorized caller, with a
\* positive amount where it takes one, on the existing invoice i
WellFormedCall(i) ==
    /\ last'.op \in PayOps => last'.auth
    /\ last'.op \in {"refund_invoice", "void_invoice", "amend_invoice"} =>
          (last'.auth /\ merchantId[last'.caller] = i.merchant_id)
    /\ last'.op \in {"pay_invoice_partial", "refund_invoice_partial"} =>
          last'.amount > 0
    /\ last'.op = "amend_invoice" => (last'.amount = NoTime \/ last'.amount > 0)

\* C11: a well-formed call on an existing invoice whose status is not an
\* allowed source status of the operation fails with InvalidInvoiceStatus, at
\* any ledger time, and changes nothing.
C11_AlwaysInvalidStatus ==
    [][(Invoked(StatusOps) /\ HasInvoice(last'.id) /\ ~paused) =>
          LET i == invoices[last'.id]
          IN  (WellFormedCall(i) /\ i.status \notin AllowedFrom(last'.op))
              => (last'.err = "InvalidInvoiceStatus" /\ NothingMoved)]_vars

\* what the code does on such a call: it always fails and changes nothing,
\* but pay_invoice_partial tests the expiry before the status and
\* refund_invoice tests the refund window and the remainder before the
\* status, so pay_invoice_partial on an invoice past its expires_at reports
\* InvoiceExpired, and refund_invoice on a Refunded invoice reports
\* InvalidAmount inside the refund window and RefundPeriodExpired after it.
C11_WrongStatus ==
    [][(Invoked(StatusOps) /\ HasInvoice(last'.id) /\ ~paused) =>
          LET i == invoices[last'.id]
              expired == i.expires_at # NoTime /\ now >= i.expires_at
              late == i.date_paid # NoTime /\ now - i.date_paid > MAX_REFUND_DURATION
          IN  (WellFormedCall(i) /\ i.status \notin AllowedFrom(last'.op))
              => /\ NothingMoved
                 /\ last'.err =
                       IF last'.op = "pay_invoice_partial" /\ expired
                       THEN "InvoiceExpired"
                       ELSE IF last'.op = "refund_invoice" /\ i.status = "Refunded"
                       THEN (IF late THEN "RefundPeriodExpired" ELSE "InvalidAmount")
                       ELSE "InvalidInvoiceStatus"]_vars

\* the owner asks for a second full refund inside the window and is told
\* InvalidAmount
C11_Witness ==
    /\ last.op = "refund_invoice"
    /\ last.auth
    /\ last.err = "InvalidAmount"
    /\ HasInvoice(last.id)
    /\ invoices[last.id].status = "Refunded"
    /\ merchantId[last.caller] = invoices[last.id].merchant_id

ExternalErrors == {TokenError, AccountRestricted}

\* the amount the recorded payment or refund asks to move on invoice i
AskedAmount(i) ==
    IF last'.op = "pay_invoice" THEN i.amount - i.amount_paid
    ELSE IF last'.op = "refund_invoice" THEN i.amount - i.amount_refunded
    ELSE last'.amount

\* the external call of the recorded payment or refund cannot succeed in the
\* state it is made in: the payer does not hold the amount to pay, or the
\* merchant's escrow is restricted or does not hold the amount to refund
ExternalCallFails(i) ==
    /\ AskedAmount(i) > 0
    /\ \/ /\ last'.op \in PayOps
          /\ balance[i.token][last'.caller] < AskedAmount(i)
       \/ /\ last'.op \in RefundOps
          /\ merchantAccount[i.merchant_id] # NoAddr
          /\ \/ restricted[merchantAccount[i.merchant_id]]
             \/ balance[i.token][merchantAccount[i.merchant_id]] < AskedAmount(i)

\* C12: a payment whose token transfer cannot succeed (the payer holds less
\* than the amount) and a refund whose escrow call cannot succeed (restricted
\* account, or escrow balance below the amount) report an error and leave
\* every invoice record, the invoice counter and every token balance exactly
\* as before the call; so does every payment or refund that reports a token
\* or escrow error; and no payment or refund changes an invoice record
\* without moving tokens, or moves tokens without changing the record.
C12_Atomic ==
    [][Invoked(PayOps \cup RefundOps) =>
          /\ (HasInvoice(last'.id) /\ ExternalCallFails(invoices[last'.id]))
                => (last'.err # OK /\ NothingMoved)
          /\ last'.err \in ExternalErrors => NothingMoved
          /\ last'.err # OK => NothingMoved
          /\ (invoices' # invoices) <=> (balance' # balance)]_vars

\* a refund of a paid invoice was refused by the restricted escrow, which
\* holds enough to pay it
C12_Witness ==
    /\ last.op \in RefundOps
    /\ last.err = AccountRestricted
    /\ HasInvoice(last.id)
    /\ invoices[last.id].status = "Paid"
    /\ invoices[last.id].amount_refunded = 0
    /\ balance[invoices[last.id].token][merchantAccount[invoices[last.id].merchant_id]]
          >= invoices[last.id].amount

\* the fee transfer of a payment failed after the merchant transfer went through
C12_FeeTransferFails ==
    /\ last.op \in PayOps
    /\ last.err = TokenError
    /\ HasInvoice(last.id)
    /\ balance[invoices[last.id].token][last.caller] > 0

\* the escrow could not cover a refund
C12_EscrowShort ==
    /\ last.op \in RefundOps
    /\ last.err = TokenError

SignedOp == {"create_invoice_signed"}

\* the arguments of the create_invoice_signed call recorded in last'
SignedMerchant == last'.args[1]
SignedDescription == last'.args[2]
SignedToken == last'.args[3]
SignedNonce == last'.args[4]
SignedSignature == last'.args[5]

\* the recorded call gets as far as the signature check: the caller holds the
\* Manager or Admin role and authenticated, the amount is positive, the
\* merchant is registered
ReachesSignature ==
    /\ ~paused
    /\ \/ <<last'.caller, "Manager">> \in roles
       \/ (admin # NoAddr /\ last'.caller = admin)
    /\ last'.auth
    /\ last'.amount > 0
    /\ merchantId[SignedMerchant] # 0

\* the submitted signature was made by the merchant's stored key over the
\* submitted tuple
SignatureValid ==
    /\ merchantKey[SignedMerchant] # NoKey
    /\ SignedSignature.key = merchantKey[SignedMerchant]
    /\ SignedSignature.msg = <<ShadeAddr, SignedMerchant, SignedNonce, last'.amount,
                               SignedToken, SignedDescription>>

\* C13: no step removes a used nonce, and a create_invoice_signed for a
\* (merchant, nonce) pair that is already used creates no invoice; when the
\* call is otherwise valid (signature included) it fails with NonceAlreadyUsed.
C13_NonceWriteOnce ==
    [][/\ usedNonces \subseteq usedNonces'
       /\ (Invoked(SignedOp) /\ <<SignedMerchant, SignedNonce>> \in usedNonces) =>
             /\ last'.err # OK
             /\ NothingMoved
             /\ usedNonces' = usedNonces
             /\ (ReachesSignature /\ SignatureValid) => last'.err = "NonceAlreadyUsed"]_vars

\* a replay with a valid signature was rejected
C13_Witness ==
    /\ last.op = "create_invoice_signed"
    /\ last.err = "NonceAlreadyUsed"
    /\ <<last.args[1], last.args[4]>> \in usedNonces
    /\ last.args[5].key = merchantKey[last.args[1]]
    /\ last.args[5].msg = <<ShadeAddr, last.args[1], last.args[4], last.amount,
                            last.args[3], last.args[2]>>
    /\ invoiceCount = 1

\* C14: an otherwise valid create_invoice_signed for merchant B with a nonce
\* that B has not used succeeds and marks (B, nonce) used, whether or not
\* another merchant has used the same nonce bytes.
C14_NoncePerMerchant ==
    [][(/\ Invoked(SignedOp)
        /\ ReachesSignature
        /\ SignatureValid
        /\ <<SignedMerchant, SignedNonce>> \notin usedNonces) =>
          /\ last'.err = OK
          /\ invoiceCount' = invoiceCount + 1
          /\ usedNonces' = usedNonces \cup {<<SignedMerchant, SignedNonce>>}]_vars

\* merchant m2 used the nonce bytes that merchant m1 had used before
C14_Witness ==
    /\ last.op = "create_invoice_signed"
    /\ last.err = OK
    /\ last.args[1] = "m2"
    /\ <<"m1", last.args[4]>> \in usedNonces
    /\ <<"m2", last.args[4]>> \in usedNonces
    /\ invoices[1].merchant_id = merchantId["m1"]
    /\ invoices[2].merchant_id = merchantId["m2"]

\* C15: create_invoice_signed creates an invoice only if the signature was
\* made by the key stored for the merchant over exactly the submitted tuple
\* (contract, merchant, nonce, amount, token, description). A call that
\* reaches the signature check fails with MerchantKeyNotFound when the
\* merchant has no key and with the host crypto error when key or tuple
\* differ; both leave invoices and used nonces unchanged.
C15_SignatureBinds ==
    [][Invoked(SignedOp) =>
          /\ last'.err = OK => SignatureValid
          /\ (ReachesSignature /\ merchantKey[SignedMerchant] = NoKey)
                => last'.err = "MerchantKeyNotFound"
          /\ (ReachesSignature /\ merchantKey[SignedMerchant] # NoKey /\ ~SignatureValid)
                => last'.err = CryptoError
          /\ last'.err \in {"MerchantKeyNotFound", CryptoError}
                => (NothingMoved /\ usedNonces' = usedNonces)]_vars

\* a signature by the merchant's own key over another amount was rejected
C15_Witness ==
    /\ last.op = "create_invoice_signed"
    /\ last.err = CryptoError
    /\ last.args[5].key = merchantKey[last.args[1]]
    /\ last.args[5].msg[2] = last.args[1]
    /\ last.args[5].msg[3] = last.args[4]
    /\ last.args[5].msg[6] = last.args[2]
    /\ last.args[5].msg[4] # last.amount

\* a signature made for another merchant was rejected
C15_OtherMerchant ==
    /\ last.op = "create_invoice_signed"
    /\ last.err = CryptoError
    /\ last.args[5].msg[2] # last.args[1]

\* a registered merchant without a key was refused
C15_NoKey ==
    /\ last.op = "create_invoice_signed"
    /\ last.err = "MerchantKeyNotFound"
    /\ merchantId[last.args[1]] # 0

ChargeOp == {"charge_subscription"}
CancelOp == {"cancel_subscription"}

\* the customer of subscription s can pay the plan amount and the plan's
\* merchant has an escrow account
Chargeable(s) ==
    LET plan == plans[s.plan_id]
    IN  /\ balance[plan.token][s.customer] >= plan.amount
        /\ allowance[plan.token][s.customer] >= plan.amount
        /\ merchantId[plan.merchant] # 0
        /\ merchantAccount[merchantId[plan.merchant]] # NoAddr

\* a charge moved nothing
NothingCharged ==
    balance' = balance /\ allowance' = allowance /\ subscriptions' = subscriptions

\* C16 (as claimed): charge_subscription on an Active subscription that was
\* never charged (last_charge_date = 0) is not rejected for timing at any
\* ledger time, and succeeds when the customer's balance and allowance cover
\* the plan amount.
C16_FirstChargeImmediate ==
    [][(Invoked(ChargeOp) /\ ~paused /\ HasSubscription(last'.id)) =>
          LET s == subscriptions[last'.id]
          IN  (s.status = "Active" /\ s.last_charge_date = 0) =>
                 /\ last'.err # "IntervalNotElapsed"
                 /\ Chargeable(s) => last'.err = OK]_vars

\* C17: on an Active subscription last charged at time t > 0, a charge at
\* now < t + interval fails with the interval error and moves no tokens; a
\* charge at now = t + interval succeeds (funds and allowance permitting) and
\* sets last_charge_date to now.
C17_IntervalBetweenCharges ==
    [][(Invoked(ChargeOp) /\ ~paused /\ HasSubscription(last'.id)) =>
          LET s == subscriptions[last'.id]
              due == s.last_charge_date + plans[s.plan_id].interval
          IN  (s.status = "Active" /\ s.last_charge_date > 0) =>
                 /\ now < due => (last'.err = "IntervalNotElapsed" /\ NothingCharged)
                 /\ (now = due /\ Chargeable(s)) =>
                       /\ last'.err = OK
                       /\ subscriptions'[last'.id].last_charge_date = now]_vars

\* a second charge went through exactly one interval after the first
C17_Witness ==
    /\ last.op = "charge_subscription"
    /\ last.err = OK
    /\ HasSubscription(last.id)
    /\ subscriptions[last.id].last_charge_date = now
    /\ now = 2 * plans[subscriptions[last.id].plan_id].interval
    /\ balance["T1"][subscriptions[last.id].customer] = 0

\* a charge at the timestamp of the previous charge was refused
C17_SameTimestamp ==
    /\ last.op = "charge_subscription"
    /\ last.err = "IntervalNotElapsed"
    /\ HasSubscription(last.id)
    /\ subscriptions[last.id].last_charge_date = now
    /\ now > 0

\* C18: a Cancelled subscription stays Cancelled in every step, and every
\* charge_subscription on it fails with SubscriptionNotActive and pulls no
\* tokens from the customer.
C18_CancelIsFinal ==
    [][/\ \A i \in 1..subscriptionCount :
             subscriptions[i].status = "Cancelled" =>
                /\ subscriptions'[i].status = "Cancelled"
                /\ subscriptions'[i].last_charge_date = subscriptions[i].last_charge_date
       /\ (Invoked(ChargeOp) /\ ~paused /\ HasSubscription(last'.id)) =>
             (subscriptions[last'.id].status = "Cancelled" =>
                 (last'.err = "SubscriptionNotActive" /\ NothingCharged))]_vars

\* a charge that was due and covered was refused because of the cancellation
C18_Witness ==
    /\ last.op = "charge_subscription"
    /\ last.err = "SubscriptionNotActive"
    /\ HasSubscription(last.id)
    /\ subscriptions[last.id].status = "Cancelled"
    /\ Chargeable(subscriptions[last.id])
    /\ now >= subscriptions[last.id].last_charge_date
                 + plans[subscriptions[last.id].plan_id].interval

\* C19 (as claimed): cancel_subscription by the customer or the plan's
\* merchant on a subscription that is already Cancelled fails with
\* SubscriptionNotActive, so no second cancellation event is emitted.
C19_DoubleCancelFails ==
    [][(Invoked(CancelOp) /\ ~paused /\ HasSubscription(last'.id) /\ last'.auth) =>
          LET s == subscriptions[last'.id]
          IN  (/\ s.status = "Cancelled"
               /\ last'.caller \in {s.customer, plans[s.plan_id].merchant})
              => last'.err = "SubscriptionNotActive"]_vars

\* C20: a subscription's status changes only in a cancel_subscription on it
\* whose caller authenticated and is its customer or the merchant of its
\* plan; an authenticated cancel by anyone else fails with NotAuthorized and
\* leaves every subscription as it was.
C20_CancelByPartyOnly ==
    [][/\ \A i \in 1..subscriptionCount :
             subscriptions'[i].status # subscriptions[i].status =>
                /\ last'.op = "cancel_subscription"
                /\ last'.id = i
                /\ last'.auth
                /\ last'.caller \in {subscriptions[i].customer,
                                     plans[subscriptions[i].plan_id].merchant}
       /\ (Invoked(CancelOp) /\ ~paused /\ HasSubscription(last'.id) /\ last'.auth) =>
             LET s == subscriptions[last'.id]
             IN  last'.caller \notin {s.customer, plans[s.plan_id].merchant} =>
                    (last'.err = "NotAuthorized" /\ subscriptions' = subscriptions)]_vars

\* a stranger's cancellation was refused and the subscription is still Active
C20_Witness ==
    /\ last.op = "cancel_subscription"
    /\ last.auth
    /\ last.err = "NotAuthorized"
    /\ HasSubscription(last.id)
    /\ subscriptions[last.id].status = "Active"
    /\ last.caller # subscriptions[last.id].customer

\* the plan's merchant cancelled a subscription
C20_MerchantCancels ==
    /\ last.op = "cancel_subscription"
    /\ last.err = OK
    /\ HasSubscription(last.id)
    /\ last.caller = plans[subscriptions[last.id].plan_id].merchant
    /\ last.caller # subscriptions[last.id].customer
    /\ subscriptions[last.id].status = "Cancelled"

\* C21 (as claimed): a successful charge of a plan of amount a in token t
\* takes the fee pay_invoice takes on an invoice of amount a in t in the same
\* state, floor(a * get_fee(t) / 10000): that fee goes to the protocol
\* contract and a - fee to the merchant's account.
C21_SameFeeAsInvoice ==
    [][(Invoked(ChargeOp) /\ last'.err = OK) =>
          LET plan == plans[subscriptions[last'.id].plan_id]
              fee == get_fee_for_amount(plan.token, plan.amount)
              account == merchantAccount[merchantId[plan.merchant]]
          IN  /\ last'.evFee = fee
              /\ balance'[plan.token][ShadeAddr] = balance[plan.token][ShadeAddr] + fee
              /\ balance'[plan.token][account] =
                    balance[plan.token][account] + plan.amount - fee]_vars

PlanOp == {"create_plan"}

\* C22 (as claimed): create_plan succeeds only for an authenticated,
\* registered merchant, a positive amount, a positive interval and a token
\* that is accepted at that time; so every stored plan has a positive
\* amount and interval and a registered merchant.
C22_PlanPreconditions ==
    [][/\ (Invoked(PlanOp) /\ last'.err = OK) =>
             LET plan == plans'[last'.id]
             IN  /\ last'.auth
                 /\ merchantId[plan.merchant] # 0
                 /\ plan.amount > 0
                 /\ plan.interval > 0
                 /\ plan.token \in acceptedTokens
       /\ \A i \in 1..planCount : merchantId[plans[i].merchant] # 0]_vars

SubscribeOp == {"subscribe"}

\* C23 (as claimed): subscribe on an existing active plan succeeds whether
\* or not the customer address authorized the call, and creates an Active
\* subscription with last_charge_date = 0.
C23_SubscribeNeedsNoAuth ==
    [][(Invoked(SubscribeOp) /\ ~paused /\ HasPlan(last'.args[1])
           /\ plans[last'.args[1]].active) =>
          /\ last'.err = OK
          /\ subscriptions'[last'.id].status = "Active"
          /\ subscriptions'[last'.id].last_charge_date = 0
          /\ subscriptions'[last'.id].customer = last'.caller]_vars

\* C24 (as claimed): every successful pay_invoice, pay_invoice_partial and
\* charge_subscription moves a token that is in the accepted set at the time
\* of the call.
C24_PaymentsInAcceptedTokens ==
    [][/\ (Invoked(PayOps) /\ last'.err = OK) =>
             invoices[last'.id].token \in acceptedTokens
       /\ (Invoked(ChargeOp) /\ last'.err = OK) =>
             plans[subscriptions[last'.id].plan_id].token \in acceptedTokens]_vars

\* a deployed contract that the admin pauses and unpauses, with one call of
\* every other state-mutating entry point in between
PauseSignature == Sign("k1", build_message("m1", "x", 2, "T1", "n1"))

NextPause ==
    \/ Settle
    \/ Ready /\ Pause(AdminAddr)
    \/ Ready /\ Unpause(AdminAddr)
    \/ Ready /\ \E t \in Tokens : AddAcceptedToken(AdminAddr, t)
    \/ Ready /\ \E ts \in SUBSET Tokens : AddAcceptedTokens(AdminAddr, ts)
    \/ Ready /\ \E t \in Tokens : RemoveAcceptedToken(AdminAddr, t)
    \/ Ready /\ \E t \in Tokens : SetFee(AdminAddr, t, HalfFee)
    \/ Ready /\ \E c \in AdminCandidates, h \in Hashes : SetAccountWasmHash(c, h)
    \/ Ready /\ \E c \in AdminCandidates : SetMerchantStatus(c, 1, FALSE)
    \/ Ready /\ \E c \in AdminCandidates : VerifyMerchant(c, 1, TRUE)
    \/ Ready /\ \E auth \in BOOLEAN, h \in Hashes : Upgrade(auth, h)
    \/ Ready /\ RegisterMerchant("m1")
    \/ Ready /\ SetMerchantKey("m1", "k2")
    \/ Ready /\ SetMerchantAccount("m1", EscrowOf["m2"])
    \/ Ready /\ CanCreate /\ \E t \in Tokens : CreateInvoice("m1", TRUE, "x", 2, t, NoTime)
    \/ Ready /\ CanCreate /\
          CreateInvoiceSigned(ManagerAddr, TRUE, "m1", "x", 2, "T1", "n1", PauseSignature)
    \/ Ready /\ PayInvoice("c1", TRUE, 1)
    \/ Ready /\ PayInvoicePartial("c1", TRUE, 1, 1)
    \/ Ready /\ RefundInvoice("m1", TRUE, 1)
    \/ Ready /\ RefundInvoicePartial(1, 1)
    \/ Ready /\ VoidInvoice("m1", TRUE, 1)
    \/ Ready /\ AmendInvoice("m1", TRUE, 1, 1, NoAddr)
    \/ Ready /\ CanCreatePlan /\ CreatePlan("m1", TRUE, 2, "T1", 1)
    \/ Ready /\ CanSubscribe /\ Subscribe("c1", TRUE, 1)
    \/ Ready /\ ChargeSubscription(1)
    \/ Ready /\ CancelSubscription("c1", TRUE, 1)

SpecPause == InitDeployed /\ [][NextPause]_vars

\* the entry points the pause switch is said to gate, and the state they own
GatedOps == {"add_accepted_token", "add_accepted_tokens", "remove_accepted_token", "set_fee", "set_account_wasm_hash", "set_merchant_status", "verify_merchant", "upgrade", "register_merchant", "set_merchant_key", "set_merchant_account", "create_invoice", "create_invoice_signed", "pay_invoice", "pay_invoice_partial", "refund_invoice", "refund_invoice_partial", "void_invoice", "amend_invoice", "create_plan", "subscribe", "charge_subscription", "cancel_subscription"}
ContractState == <<regVars, usedNonces, invoiceCount, invoices, balance, now, subVars, coreVars>>

\* C25 (as claimed): while the contract is paused, every state-mutating entry
\* point other than grant_role, revoke_role, restrict_merchant_account, the
\* admin transfer and pause/unpause fails with ContractPaused and changes no
\* state; this includes the merchant key and account updates.
C25_PausedBlocksAll ==
    [][(paused /\ Invoked(GatedOps)) =>
          (last'.err = "ContractPaused" /\ ContractState' = ContractState)]_vars

\* the entry points of that list that shade.rs forwards without assert_not_paused
UngatedOps == {"set_merchant_key", "set_merchant_account", "set_account_wasm_hash", "set_merchant_status", "verify_merchant", "upgrade"}

\* the entry points whose first statement is assert_not_paused do fail so
C25_PausedBlocksChecked ==
    [][(paused /\ Invoked(GatedOps \ UngatedOps)) =>
          (last'.err = "ContractPaused" /\ ContractState' = ContractState)]_vars

ProposeOp == {"propose_admin_transfer"}
AcceptOp == {"accept_admin_transfer"}
AdminOps == {"pause", "unpause", "grant_role", "revoke_role", "propose_admin_transfer", "add_accepted_token", "add_accepted_tokens", "remove_accepted_token", "set_fee"}

\* C26: the stored admin changes only by a successful accept_admin_transfer
\* whose authenticated caller is the pending admin, and the pending admin is
\* only ever set by a propose of the current admin; a propose never changes
\* the admin, a propose by a non-admin fails, an accept by anyone but the
\* pending admin fails and leaves the admin unchanged, and once the admin has
\* changed every admin-gated call by another address (the previous admin
\* included) fails.
C26_AdminChangesByAccept ==
    [][/\ (admin # NoAddr /\ admin' # admin) =>
             /\ Invoked(AcceptOp) /\ last'.err = OK /\ last'.auth
             /\ pendingAdmin # NoAddr /\ last'.caller = pendingAdmin
             /\ admin' = last'.caller
       /\ Invoked(ProposeOp) =>
             /\ admin' = admin
             /\ (~last'.auth \/ admin = NoAddr \/ last'.caller # admin) =>
                   (last'.err # OK /\ pendingAdmin' = pendingAdmin)
       /\ (pendingAdmin' # pendingAdmin /\ pendingAdmin' # NoAddr) =>
             (Invoked(ProposeOp) /\ last'.auth /\ last'.caller = admin /\ admin # NoAddr)
       /\ (Invoked(AcceptOp) /\ (pendingAdmin = NoAddr \/ last'.caller # pendingAdmin)) =>
             (last'.err # OK /\ admin' = admin)
       /\ (Invoked(AdminOps) /\ last'.caller # admin) =>
             (last'.err # OK /\ ContractState' = ContractState)]_vars

\* a proposed admin has accepted and is now the stored admin
C26_Witness ==
    /\ last.op = "accept_admin_transfer" /\ last.err = OK /\ last.auth
    /\ admin = last.caller /\ contractInfo.timestamp # NoTime

\* C27: a successful propose stores its new_admin whatever was pending before
\* (last writer wins); accept_admin_transfer succeeds exactly for the
\* authenticated pending admin and clears the pending admin, so with nothing
\* pending every authenticated accept fails with NotAuthorized, whoever calls.
C27_PendingSingleShot ==
    [][/\ (Invoked(ProposeOp) /\ last'.err = OK) => pendingAdmin' = last'.args[1]
       /\ Invoked(AcceptOp) =>
             /\ last'.err = OK <=>
                   (last'.auth /\ pendingAdmin # NoAddr /\ last'.caller = pendingAdmin)
             /\ last'.err = OK => pendingAdmin' = NoAddr
             /\ (last'.auth /\ (pendingAdmin = NoAddr \/ last'.caller # pendingAdmin)) =>
                   (last'.err = "NotAuthorized" /\ ContractState' = ContractState)]_vars

\* the stored admin tries to accept while nothing is pending, and is refused
C27_Witness ==
    /\ last.op = "accept_admin_transfer" /\ last.auth /\ last.err = "NotAuthorized"
    /\ pendingAdmin = NoAddr /\ admin # NoAddr /\ last.caller = admin

InitOp == {"initialize"}

\* C28: initialize takes effect at most once. On a contract without a stored
\* admin it stores its argument as admin and ContractInfo {admin, timestamp =
\* ledger time} and nothing else; once an admin is stored every initialize,
\* whatever its argument, fails with AlreadyInitialized and changes no
\* state; the ContractInfo timestamp is never written by anything else.
C28_InitializeOnce ==
    [][/\ (Invoked(InitOp) /\ admin # NoAddr) =>
             (last'.err = "AlreadyInitialized" /\ ContractState' = ContractState)
       /\ (Invoked(InitOp) /\ admin = NoAddr) =>
             /\ last'.err = OK
             /\ admin' = last'.caller
             /\ contractInfo' = [admin |-> last'.caller, timestamp |-> now]
             /\ UNCHANGED <<roles, merchantKey, usedNonces, paused, acceptedTokens, tokenFee, merchantCount, merchantId, merchantAccount, restricted, invoiceCount, invoices, balance, now, subVars, pendingAdmin>>
       /\ contractInfo'.timestamp # contractInfo.timestamp => (Invoked(InitOp) /\ admin = NoAddr)
       /\ admin = NoAddr => contractInfo = NoInfo]_vars

\* a second initialize naming another admin, at a later ledger time, refused
C28_Witness ==
    /\ last.op = "initialize" /\ last.err = "AlreadyInitialized"
    /\ last.caller # admin /\ admin # NoAddr
    /\ contractInfo.timestamp # now

GrantOp == {"grant_role"}
RevokeOp == {"revoke_role"}

\* has_role(u, r) after grant_role(admin, u, r); revoke_role(admin, u, r)
AfterGrantRevoke(u, r) == has_role_in(revoke_role(grant_role(roles, u, r), u, r), u, r)

\* C29 (as claimed): whatever has_role(u, r) was beforehand, after
\* grant_role(admin, u, r) followed by revoke_role(admin, u, r) it has the
\* value it had before the two calls.
C29_RoundTripPreserves ==
    admin # NoAddr => \A u \in RoleUsers, r \in Roles : AfterGrantRevoke(u, r) = has_role(u, r)

\* C29 (amended): a successful grant_role sets the flag of (u, r) and a
\* successful revoke_role clears it, so after grant then revoke has_role(u, r)
\* is false for Manager and Operator: equal to its earlier value only when u
\* did not hold r before, and turned from true to false when u did. For the
\* Admin role has_role depends on the stored admin alone and is unchanged.
C29_RoundTripClears ==
    [][/\ (Invoked(GrantOp) /\ last'.err = OK) =>
             /\ roles' = grant_role(roles, last'.args[1], last'.args[2])
             /\ last'.args[2] # "Admin" => has_role_in(roles', last'.args[1], last'.args[2])
       /\ (Invoked(RevokeOp) /\ last'.err = OK) =>
             /\ roles' = revoke_role(roles, last'.args[1], last'.args[2])
             /\ last'.args[2] # "Admin" => ~has_role_in(roles', last'.args[1], last'.args[2])
       /\ admin # NoAddr =>
             \A u \in RoleUsers, r \in Roles :
                AfterGrantRevoke(u, r) = IF r = "Admin" THEN has_role(u, r) ELSE FALSE]_vars

\* the admin has revoked a role that had been granted: the user holds it no more
C29_Witness ==
    /\ last.op = "revoke_role" /\ last.err = OK /\ last.args[2] # "Admin"
    /\ ~has_role(last.args[1], last.args[2])
    /\ \E r \in Roles : r # last.args[2] /\ <<last.args[1], r>> \in roles

InvoiceCreateOps == {"create_invoice", "create_invoice_signed"}
RegisterOp == {"register_merchant"}
Counters == <<invoiceCount, merchantCount, planCount, subscriptionCount>>

\* a record exists for exactly the ids 1..count and carries its key as id
RecordsMatchCounters ==
    /\ DOMAIN invoices = 1..invoiceCount /\ \A i \in 1..invoiceCount : invoices[i].id = i
    /\ DOMAIN plans = 1..planCount /\ \A i \in 1..planCount : plans[i].id = i
    /\ DOMAIN subscriptions = 1..subscriptionCount /\ \A i \in 1..subscriptionCount : subscriptions[i].id = i
    /\ {merchantId[m] : m \in {x \in DOMAIN merchantId : merchantId[x] # 0}} = 1..merchantCount
    /\ \A m1, m2 \in DOMAIN merchantId : (merchantId[m1] # 0 /\ merchantId[m1] = merchantId[m2]) => m1 = m2

CreateOps == InvoiceCreateOps \cup PlanOp \cup SubscribeOp \cup RegisterOp

\* the counter the recorded create counts in, after the call
CounterAfter ==
    IF last'.op \in InvoiceCreateOps THEN invoiceCount'
    ELSE IF last'.op \in PlanOp THEN planCount'
    ELSE IF last'.op \in SubscribeOp THEN subscriptionCount'
    ELSE merchantCount'

\* what the recorded create hands back to its caller: create_invoice,
\* create_invoice_signed, create_plan and subscribe return the id they stored
\* the record under; register_merchant has no return value, recorded as 0
ReturnedId == last'.id

\* C30 (as claimed): every successful create, register_merchant included,
\* raises its counter by exactly one and returns the new counter value as
\* the id.
C30_EveryCreateReturnsId ==
    [][(Invoked(CreateOps) /\ last'.err = OK) =>
          (Counters' # Counters /\ ReturnedId = CounterAfter)]_vars

\* a merchant has just been registered under the new counter value, which
\* the call did not return
C30_RegisteredWithoutReturn ==
    /\ last.op \in RegisterOp /\ last.err = OK
    /\ merchantId[last.caller] = merchantCount
    /\ last.id # merchantCount

\* C30 (amended): no counter ever decreases; a successful create_invoice,
\* create_invoice_signed, create_plan or subscribe raises its counter by one
\* and returns the new counter value, which is the id of the new record; a
\* successful register_merchant returns nothing: it raises MerchantCount by
\* one and stores the new value as the merchant's id under the merchant's
\* address; a failed call changes no counter, and no other call does; records
\* exist for exactly the ids 1..count with id = key, and an id once given
\* stays with its merchant.
C30_CountersMonotone ==
    [][/\ invoiceCount' >= invoiceCount /\ merchantCount' >= merchantCount
       /\ planCount' >= planCount /\ subscriptionCount' >= subscriptionCount
       /\ (Invoked(InvoiceCreateOps) /\ last'.err = OK) =>
             /\ invoiceCount' = invoiceCount + 1 /\ ReturnedId = invoiceCount'
             /\ invoices'[last'.id].id = last'.id
             /\ UNCHANGED <<merchantCount, planCount, subscriptionCount>>
       /\ (Invoked(PlanOp) /\ last'.err = OK) =>
             /\ planCount' = planCount + 1 /\ ReturnedId = planCount'
             /\ plans'[last'.id].id = last'.id
             /\ UNCHANGED <<invoiceCount, merchantCount, subscriptionCount>>
       /\ (Invoked(SubscribeOp) /\ last'.err = OK) =>
             /\ subscriptionCount' = subscriptionCount + 1 /\ ReturnedId = subscriptionCount'
             /\ subscriptions'[last'.id].id = last'.id
             /\ UNCHANGED <<invoiceCount, merchantCount, planCount>>
       /\ (Invoked(RegisterOp) /\ last'.err = OK) =>
             /\ merchantCount' = merchantCount + 1 /\ merchantId[last'.caller] = 0
             /\ merchantId'[last'.caller] = merchantCount'
             /\ ReturnedId = 0
             /\ UNCHANGED <<invoiceCount, planCount, subscriptionCount>>
       /\ (last'.err # OK \/ last'.op \notin CreateOps) =>
             Counters' = Counters
       /\ \A m \in DOMAIN merchantId : merchantId[m] # 0 => merchantId'[m] = merchantId[m]
       /\ RecordsMatchCounters /\ RecordsMatchCounters']_vars

\* second records of each kind exist, and a create has just failed
C30_Witness ==
    /\ invoiceCount = 2 /\ planCount = 2 /\ subscriptionCount = 2 /\ merchantCount >= 2
    /\ last.op \in InvoiceCreateOps \cup PlanOp \cup SubscribeOp \cup RegisterOp
    /\ last.err # OK
    /\ RecordsMatchCounters

(* ------------------ fees, refunds and the protocol balance ------------- *)

\* invoice payments, refunds and subscription charges of merchant m1 side by
\* side, while the admin changes the invoice fee; the subscription fee key is
\* unset or holds 5000
NextFees ==
    \/ Settle
    \/ Ready /\ Tick
    \/ Ready /\ \E t \in Tokens, f \in FeeRates : SetFee(AdminAddr, t, f)
    \/ Ready /\ CanCreate /\ \E t \in Tokens : CreateInvoice("m1", TRUE, "x", 2, t, NoTime)
    \/ Ready /\ \E p \in Customers, id \in 1..MaxInvoices : PayInvoice(p, TRUE, id)
    \/ Ready /\ \E p \in Customers, id \in 1..MaxInvoices : PayInvoicePartial(p, TRUE, id, 1)
    \/ Ready /\ \E id \in 1..MaxInvoices : RefundInvoice("m1", TRUE, id)
    \/ Ready /\ \E id \in 1..MaxInvoices : RefundInvoicePartial(id, 1)
    \/ Ready /\ \E c \in Customers, t \in Tokens : Approve(c, t, RichBalance)
    \/ Ready /\ CanCreatePlan /\ \E t \in Tokens : CreatePlan("m1", TRUE, 2, t, 1)
    \/ Ready /\ CanSubscribe /\ \E c \in Customers : Subscribe(c, TRUE, 1)
    \/ Ready /\ \E id \in 1..MaxSubs : ChargeSubscription(id)

SpecFees == InitSub /\ [][NextFees]_vars

\* the token the successful payment or charge recorded in `last'` was made in
ChargedToken ==
    IF last'.op \in PayOps THEN invoices[last'.id].token
    ELSE plans[subscriptions[last'.id].plan_id].token

RECURSIVE InvoiceFeesIn(_, _)
\* the fees of the InvoicePaid events of invoices 1..n in token t
InvoiceFeesIn(t, n) ==
    IF n = 0 THEN 0
    ELSE InvoiceFeesIn(t, n - 1) + (IF invoices[n].token = t THEN feesPaid[n] ELSE 0)

\* C31: the protocol contract's balance of a token grows by exactly the fee
\* of each InvoicePaid and SubscriptionCharged event in that token and is
\* changed by nothing else, so it is the sum of those fees; the fees emitted
\* for an invoice are part of it, and no refund or other entry point moves
\* tokens out of the protocol contract.
C31_ProtocolBalanceIsFees ==
    [][\A t \in Tokens :
          /\ balance'[t][ShadeAddr] =
                balance[t][ShadeAddr]
                + (IF Invoked(PayOps \cup ChargeOp) /\ last'.err = OK /\ ChargedToken = t
                   THEN last'.evFee ELSE 0)
          /\ balance'[t][ShadeAddr] >= balance[t][ShadeAddr]
          /\ (Invoked(PayOps) /\ last'.err = OK /\ ChargedToken = t) =>
                feesPaid'[last'.id] - feesPaid[last'.id]
                   = balance'[t][ShadeAddr] - balance[t][ShadeAddr]
          /\ (planCount = 0 /\ balance[t][ShadeAddr] = InvoiceFeesIn(t, invoiceCount)) =>
                (planCount' > 0 \/ balance'[t][ShadeAddr] = InvoiceFeesIn(t, invoiceCount)')]_vars

\* a refund has been made of an invoice on which a fee was collected, and the
\* protocol contract still holds the fee
C31_Witness ==
    /\ last.op \in RefundOps /\ last.err = OK
    /\ feesPaid[last.id] > 0
    /\ balance[invoices[last.id].token][ShadeAddr] >= feesPaid[last.id]
    /\ subscriptionCount > 0 /\ balance[invoices[last.id].token][ShadeAddr] > feesPaid[last.id]

(* ------------------------- payer and date_paid ------------------------- *)

PaidStatuses == {"Paid", "PartiallyRefunded", "Refunded"}

\* payer and date_paid of invoice i agree with its amounts and status
PayerAndDateConsistent(i) ==
    /\ (i.payer # NoAddr) <=> (i.amount_paid > 0)
    /\ (i.date_paid # NoTime) <=> (i.amount_paid = i.amount)
    /\ (i.date_paid # NoTime) <=> (i.status \in PaidStatuses)
    /\ i.status \in {"Pending", "PartiallyPaid", "Cancelled"} => i.date_paid = NoTime

\* C32: for every invoice, payer is set iff amount_paid > 0; date_paid is set
\* iff amount_paid = amount, which is iff the status is Paid,
\* PartiallyRefunded or Refunded; it is set by the payment that completes the
\* invoice, to the ledger time of that payment, and never changes afterwards;
\* so a refund never meets a Paid or PartiallyRefunded invoice without payer.
C32_PayerAndDatePaid ==
    [][\A id \in 1..invoiceCount :
          /\ PayerAndDateConsistent(invoices[id])
          /\ PayerAndDateConsistent(invoices'[id])
          /\ invoices[id].date_paid # NoTime => invoices'[id].date_paid = invoices[id].date_paid
          /\ invoices[id].payer # NoAddr => invoices'[id].payer = invoices[id].payer
          /\ (invoices[id].date_paid = NoTime /\ invoices'[id].date_paid # NoTime) =>
                /\ Invoked(PayOps) /\ last'.err = OK /\ last'.id = id
                /\ invoices'[id].date_paid = now
                /\ invoices'[id].status = "Paid"
          /\ invoices[id].status \in {"Paid", "PartiallyRefunded"} => invoices[id].payer # NoAddr]_vars

\* an invoice completed by a second payment, later partially refunded: its
\* date_paid is the time of the completing payment, its payer is set
C32_Witness ==
    /\ last.op \in RefundOps /\ last.err = OK
    /\ invoices[last.id].status = "PartiallyRefunded"
    /\ invoices[last.id].payer # NoAddr
    /\ invoices[last.id].date_paid # NoTime
    /\ invoices[last.id].date_paid > invoices[last.id].date_created
    /\ invoices[last.id].date_paid < now

(* ---------------- order of checks and effects in an invocation --------- *)

\* C33 (as claimed): in pay_invoice_partial, refund_invoice_partial and
\* charge_subscription every precondition check, the check that an existing
\* payer equals the caller included, is evaluated before the first token
\* transfer, escrow call or storage write of the invocation.
C33_ChecksBeforeEffects ==
    [][~paused =>
          /\ Invoked({"pay_invoice_partial"}) =>
                ~pay_invoice_partial(last'.caller, last'.auth, last'.id, last'.amount).late
          /\ Invoked({"refund_invoice_partial"}) =>
                ~refund_invoice_partial(last'.id, last'.amount).late
          /\ Invoked(ChargeOp) => ~charge_subscription(last'.id).late]_vars

\* the checks of refund_invoice_partial and charge_subscription that can fail
\* in a reachable state all precede the effects
C33_RefundAndChargeInOrder ==
    [][~paused =>
          /\ Invoked({"refund_invoice_partial"}) =>
                ~refund_invoice_partial(last'.id, last'.amount).late
          /\ Invoked(ChargeOp) => ~charge_subscription(last'.id).late]_vars

(* ------------- create_invoice_signed: the order of its checks ---------- *)

\* signed creation with inputs that fail one or several checks: callers with
\* and without the Manager or Admin role (an Operator among them), zero and
\* positive amounts, registered and unregistered merchants, merchants with
\* and without a key, valid and foreign signatures, fresh and used nonces
OrderCallers == {AdminAddr, ManagerAddr, "c1"}
OrderSignatures == {Sign(k, build_message(m, "x", 1, t, n)) : k \in Keys, m \in Merchants, t \in Tokens, n \in SignedNonces}

NextSignedOrder ==
    \/ Settle
    \/ Ready /\ GrantRole(AdminAddr, "c1", "Operator")
    \/ Ready /\ \E k \in Keys : SetMerchantKey("m2", k)
    \/ Ready /\ CanCreateSigned /\
          \E c \in OrderCallers, m \in MerchantCallers, a \in {0, 1}, t \in Tokens,
             n \in SignedNonces, sig \in OrderSignatures :
             CreateInvoiceSigned(c, TRUE, m, "x", a, t, n, sig)

SpecSignedOrder == InitDeployed /\ [][NextSignedOrder]_vars

\* the error of the first check of create_invoice_signed that the recorded
\* call fails, in the order role, amount, merchant, key, signature, nonce
FirstFailingCheck ==
    IF ~(last'.caller = admin \/ <<last'.caller, "Manager">> \in roles) THEN "NotAuthorized"
    ELSE IF last'.amount <= 0 THEN "InvalidAmount"
    ELSE IF merchantId[SignedMerchant] = 0 THEN "MerchantNotFound"
    ELSE IF merchantKey[SignedMerchant] = NoKey THEN "MerchantKeyNotFound"
    ELSE IF ~SignatureValid THEN CryptoError
    ELSE IF <<SignedMerchant, SignedNonce>> \in usedNonces THEN "NonceAlreadyUsed"
    ELSE OK

\* C34: an authenticated create_invoice_signed reports the first failing
\* check in the order: caller neither Admin nor Manager -> NotAuthorized;
\* amount <= 0 -> InvalidAmount; merchant not registered -> MerchantNotFound;
\* no merchant key -> MerchantKeyNotFound; signature mismatch -> host crypto
\* error; nonce used -> NonceAlreadyUsed. A failing call stores nothing; the
\* invoice and the nonce are stored only when every check passed.
C34_SignedCheckOrder ==
    [][(Invoked(SignedOp) /\ ~paused /\ last'.auth) =>
          /\ last'.err = FirstFailingCheck
          /\ last'.err # OK => (invoices' = invoices /\ invoiceCount' = invoiceCount /\ usedNonces' = usedNonces)
          /\ last'.err = OK =>
                /\ invoiceCount' = invoiceCount + 1
                /\ invoices'[invoiceCount'].amount = last'.amount
                /\ usedNonces' = usedNonces \cup {<<SignedMerchant, SignedNonce>>}]_vars

\* a zero amount for an unregistered merchant, with a signature that cannot
\* match, submitted by the manager: the amount check decides
C34_Witness ==
    /\ last.op = "create_invoice_signed" /\ last.auth /\ last.caller = ManagerAddr
    /\ last.amount = 0
    /\ merchantId[last.args[1]] = 0
    /\ last.err = "InvalidAmount"
    /\ usedNonces # {}

(* ----------------- pay_invoice and pay_invoice_partial ----------------- *)

\* what is left to pay on invoice id
Remaining(id) == invoices[id].amount - invoices[id].amount_paid

PayCallers == Customers \X BOOLEAN

\* C35 (as claimed): for every payer and invoice, pay_invoice(payer, id) has
\* the outcome of pay_invoice_partial(payer, id, amount - amount_paid) from
\* the same state: the same invoice, transfers and event, or the same error,
\* also for Paid, Cancelled, Refunded and expired invoices.
C35_PayIsPartialOfRemaining ==
    \A c \in PayCallers, id \in 1..invoiceCount :
       pay_invoice(c[1], c[2], id) = pay_invoice_partial(c[1], c[2], id, Remaining(id))

\* C35 (amended): on an invoice that is Pending or PartiallyPaid, pay_invoice
\* has exactly the outcome of pay_invoice_partial with the remaining amount
\* (same stored invoice, balances, event amount and fee, same error). On an
\* invoice in any other status pay_invoice fails with InvalidInvoiceStatus
\* and changes nothing, while pay_invoice_partial with the remaining amount
\* also fails and changes nothing but reports the first of its own checks:
\* the host auth error, InvalidAmount when nothing remains, InvoiceExpired
\* when the invoice has expired, and InvalidInvoiceStatus otherwise.
C35_PayVersusPartial ==
    [][(Invoked({"pay_invoice"}) /\ ~paused /\ HasInvoice(last'.id)) =>
          LET i == invoices[last'.id]
              partial == pay_invoice_partial(last'.caller, last'.auth, last'.id, Remaining(last'.id))
          IN  IF i.status \in {"Pending", "PartiallyPaid"}
              THEN /\ last'.err = partial.err
                   /\ invoices' = Rollback(partial).inv
                   /\ balance' = Rollback(partial).bal
                   /\ last'.evAmount = partial.evAmount /\ last'.evFee = partial.evFee
              ELSE /\ last'.err = "InvalidInvoiceStatus"
                   /\ invoices' = invoices /\ balance' = balance
                   /\ partial.inv = invoices /\ partial.bal = balance
                   /\ partial.err =
                         IF ~last'.auth THEN AuthError
                         ELSE IF Remaining(last'.id) <= 0 THEN "InvalidAmount"
                         ELSE IF i.expires_at # NoTime /\ now >= i.expires_at THEN "InvoiceExpired"
                         ELSE "InvalidInvoiceStatus"]_vars

\* pay_invoice has completed an invoice that was partially paid before
C35_Witness ==
    /\ last.op = "pay_invoice" /\ last.err = OK
    /\ invoices[last.id].status = "Paid"
    /\ last.evAmount > 0 /\ last.evAmount < invoices[last.id].amount

\* pay_invoice on a paid invoice: InvalidInvoiceStatus, where the partial
\* payment of the remaining 0 would report InvalidAmount
C35_PaidAgain ==
    /\ last.op = "pay_invoice" /\ last.auth /\ last.err = "InvalidInvoiceStatus"
    /\ HasInvoice(last.id) /\ invoices[last.id].status = "Paid"
    /\ pay_invoice_partial(last.caller, TRUE, last.id, Remaining(last.id)).err = "InvalidAmount"

(* ------------------------ who may refund ------------------------ *)

\* C36: every successful refund_invoice and refund_invoice_partial runs in an
\* invocation authorized by the address whose merchant id is the invoice's
\* merchant_id; no refund raises amount_refunded without that authorization.
C36_RefundAuthorizedByOwner ==
    [][(Invoked({"refund_invoice", "refund_invoice_partial"}) /\ last'.err = OK) =>
          /\ last'.auth
          /\ last'.caller \in DOMAIN merchantId
          /\ merchantId[last'.caller] = invoices[last'.id].merchant_id]_vars

(* ----------------- refunds against the net received ----------------- *)

\* C37: for every invoice, in every reachable state, amount_refunded is at
\* most the net amount the merchant's escrow received for that invoice (the
\* sum of amount - fee over its payments); with a non-zero fee a refund never
\* draws on escrow funds deposited for something else.
C37_RefundWithinNetReceived ==
    \A id \in 1..invoiceCount :
       invoices[id].amount_refunded <= invoices[id].amount_paid - feesPaid[id]

(* ------------------ at most one charge per interval ------------------ *)

\* C38: two successful charge_subscription calls on one subscription are at
\* least plan.interval apart, from ledger time 0 on. Stated on the steps:
\* last_charge_date of a subscription changes only in a successful charge of
\* it, which sets it to the ledger time; a charge succeeds only at a time
\* now >= last_charge_date + interval, hence never at time 0, so that the
\* value 0 is never the time of a successful charge; and a successful charge
\* debits the customer the plan amount once.
C38_OneChargePerInterval ==
    [][/\ \A i \in 1..subscriptionCount :
             subscriptions'[i].last_charge_date # subscriptions[i].last_charge_date =>
                /\ Invoked(ChargeOp) /\ last'.err = OK /\ last'.id = i
                /\ subscriptions'[i].last_charge_date = now
       /\ (Invoked(ChargeOp) /\ last'.err = OK) =>
             LET s == subscriptions[last'.id]
                 p == plans[s.plan_id]
             IN  /\ now >= s.last_charge_date + p.interval
                 /\ now > 0
                 /\ subscriptions'[last'.id].last_charge_date = now
                 /\ balance'[p.token][s.customer] = balance[p.token][s.customer] - p.amount]_vars

\* a subscription was charged a second time, more than one interval after
\* its first charge
C38_Witness ==
    /\ last.op = "charge_subscription" /\ last.err = OK
    /\ HasSubscription(last.id)
    /\ LET s == subscriptions[last.id]
           p == plans[s.plan_id]
       IN  /\ s.last_charge_date = now
           /\ now > 2 * p.interval
           /\ balance[p.token][s.customer] = RichBalance - 2 * p.amount

(* ------------------ partial payments under one fee rate ---------------- *)

\* the admin sets the fee before the first invoice exists; from then on the
\* rate stays as it is while invoices are created and paid in parts
NextFixedFee ==
    \/ Settle
    \/ Ready /\ invoiceCount = 0 /\ \E t \in Tokens, f \in FeeRates : SetFee(AdminAddr, t, f)
    \/ Ready /\ CanCreate /\
          \E m \in Merchants, a \in Amounts, t \in Tokens :
             CreateInvoice(m, TRUE, "x", a, t, NoTime)
    \/ Ready /\ \E p \in Customers, auth \in BOOLEAN, id \in InvoiceIds :
          PayInvoice(p, auth, id)
    \/ Ready /\ \E p \in Customers, auth \in BOOLEAN, id \in InvoiceIds, a \in Amounts :
          PayInvoicePartial(p, auth, id, a)

SpecFixedFee == InitDeployed /\ [][NextFixedFee]_vars

\* floor(amount * bp / 10000) at the rate stored for the token
FloorFee(tok, amount) == (amount * FeeRateOf(tok)) \div BASIS_POINTS

RECURSIVE NetReceivedIn(_, _, _)
\* amount_paid less the fees collected, over the invoices 1..n in token t
\* whose merchant account is esc
NetReceivedIn(t, esc, n) ==
    IF n = 0 THEN 0
    ELSE NetReceivedIn(t, esc, n - 1)
         + (IF invoices[n].token = t /\ merchantAccount[invoices[n].merchant_id] = esc
            THEN invoices[n].amount_paid - feesPaid[n] ELSE 0)

\* the fees collected on each invoice against the fee of one payment of the
\* same amount; every escrow holds what its invoices were paid less their
\* fees, and the protocol holds the fees
FeesWithinFloor ==
    /\ \A id \in 1..invoiceCount :
          LET i == invoices[id]
          IN  /\ feesPaid[id] <= FloorFee(i.token, i.amount_paid)
              /\ i.status = "Paid" =>
                    /\ i.amount_paid = i.amount
                    /\ feesPaid[id] <= FloorFee(i.token, i.amount)
    /\ \A t \in Tokens :
          /\ \A e \in Escrows : balance[t][e] = NetReceivedIn(t, e, invoiceCount)
          /\ balance[t][ShadeAddr] = InvoiceFeesIn(t, invoiceCount)

\* C39: at a constant fee rate bp every payment of a_i collects the fee
\* floor(a_i * bp / 10000), the payer is debited a_i, the escrow credited
\* a_i - fee and the protocol credited the fee; the fees collected on an
\* invoice never exceed floor(amount_paid * bp / 10000), and once the invoice
\* is paid in full, through whatever sequence of partial payments, the total
\* is at most floor(A * bp / 10000) and the escrow has received A minus it.
C39_PartialPaymentFees ==
    [][/\ \A t \in Tokens : tokenFee'[t] # tokenFee[t] => invoiceCount = 0
       /\ (Invoked({"pay_invoice", "pay_invoice_partial"}) /\ last'.err = OK) =>
             LET i == invoices[last'.id]
                 a == last'.evAmount
                 fee == FloorFee(i.token, a)
                 esc == merchantAccount[i.merchant_id]
             IN  /\ a = invoices'[last'.id].amount_paid - i.amount_paid
                 /\ last'.evFee = fee
                 /\ balance'[i.token][last'.caller] = balance[i.token][last'.caller] - a
                 /\ balance'[i.token][esc] = balance[i.token][esc] + (a - fee)
                 /\ balance'[i.token][ShadeAddr] = balance[i.token][ShadeAddr] + fee
       /\ FeesWithinFloor']_vars

\* an invoice of 3 paid in three parts of 1 at rate 5000: the parts carry no
\* fee, a single payment would have carried 1
C39_Witness ==
    /\ last.op = "pay_invoice_partial" /\ last.err = OK /\ last.evAmount = 1
    /\ HasInvoice(last.id)
    /\ invoices[last.id].status = "Paid"
    /\ invoices[last.id].amount = 3
    /\ FeeRateOf(invoices[last.id].token) = HalfFee
    /\ feesPaid[last.id] = 0
    /\ FloorFee(invoices[last.id].token, 3) = 1

(* --------------------------- expiry is final --------------------------- *)

InvoiceOps ==
    {"pay_invoice", "pay_invoice_partial", "refund_invoice", "refund_invoice_partial", "void_invoice", "amend_invoice"}

\* ledger time has reached the expiry of invoice i
PastExpiry(i) == i.expires_at # NoTime /\ now >= i.expires_at

\* C40: once ledger time has reached expires_at, amount_paid of the invoice
\* never changes again; an expired PartiallyPaid invoice is not changed by
\* any step: every invoice entry point called on it fails, an authenticated
\* payment of a positive amount with InvoiceExpired, void and amend of the
\* owner and every refund with InvalidInvoiceStatus; it stays PartiallyPaid
\* and no token of it moves.
C40_ExpiryIsFinal ==
    [][/\ \A id \in 1..invoiceCount :
             PastExpiry(invoices[id]) =>
                /\ invoices'[id].amount_paid = invoices[id].amount_paid
                /\ invoices'[id].expires_at = invoices[id].expires_at /\ now' >= now
                /\ invoices[id].status = "PartiallyPaid" => invoices'[id] = invoices[id]
       /\ (/\ Invoked(InvoiceOps) /\ HasInvoice(last'.id)
           /\ PastExpiry(invoices[last'.id])
           /\ invoices[last'.id].status = "PartiallyPaid") =>
             /\ last'.err # OK
             /\ balance' = balance
             /\ (last'.op = "pay_invoice" /\ last'.auth) => last'.err = "InvoiceExpired"
             /\ (last'.op = "pay_invoice_partial" /\ last'.auth /\ last'.amount > 0) =>
                   last'.err = "InvoiceExpired"
             /\ last'.op \in {"refund_invoice_partial"} => last'.err = "InvalidInvoiceStatus"
             /\ (/\ last'.op \in {"void_invoice", "amend_invoice", "refund_invoice"}
                 /\ last'.auth
                 /\ merchantId[last'.caller] = invoices[last'.id].merchant_id) =>
                   last'.err = "InvalidInvoiceStatus"]_vars

\* the payer of a partially paid invoice tried to pay the rest after the
\* expiry and was refused
C40_Witness ==
    /\ last.op = "pay_invoice" /\ last.auth /\ last.err = "InvoiceExpired"
    /\ HasInvoice(last.id)
    /\ invoices[last.id].status = "PartiallyPaid"
    /\ invoices[last.id].payer = last.caller
    /\ PastExpiry(invoices[last.id])
    /\ balance["T1"][last.caller] >= Remaining(last.id)

====
